---- MODULE Spec2Model ----
(***************************************************************************)
(* A model of fluids/core.py: the multi-route dimensionless-number         *)
(* functions (Reynolds, Peclet_heat, Fourier_heat, Graetz_heat, Schmidt,   *)
(* Lewis, Prandtl, Grashof), the single-formula functions that read g or R *)
(* or take a flag (Froude, Froude_densimetric, Confinement, Morton, Bond,  *)
(* Archimedes, c_ideal_gas, the head, pressure-drop and loss-coefficient   *)
(* conversions, nu_mu_converter, gravity), the synonyms, and the           *)
(* temperature conversions; called once, several times in sequence, or     *)
(* from two threads; and Engauge_2d_parser, stepped line by line.          *)
(*                                                                         *)
(* Numbers are exact rationals <<n, d>> with d > 0 in lowest terms, so     *)
(* every statement about values is a statement in exact arithmetic; the    *)
(* rounding of IEEE doubles is outside the model.  Python's None is the    *)
(* empty tuple, and an exception raised inside an arithmetic expression    *)
(* is a one-element tuple naming it, which every later operation of the    *)
(* expression passes on (left operand first, as Python evaluates).         *)
(***************************************************************************)

EXTENDS Integers, Sequences, FiniteSets, TLC

VARIABLES
    fn,      \* the name of the function being called
    args,    \* the arguments of the call, by parameter name
    out,     \* the outcome of the call: a value returned or an exception raised
    pc,      \* "call" before the call runs, "done" after it, "back" after the
             \* caller has passed a conversion's result to the inverse conversion,
             \* "threads" while the calls are made by the threads
    heap,    \* the caller's objects and the objects returned to it, by reference
    consts,  \* the module-level constants the functions read, and the value
             \* bound as the default of the parameters g=g
    python,  \* the version of the interpreter that runs the module
    log,     \* the calls the caller has made so far, with their outcomes
    threads  \* the calls in progress in the threads that call concurrently, or
             \* in the one thread that calls the parser, with their locals

vars == <<fn, args, out, pc, heap, consts, python, log, threads>>

----------------------------------------------------------------------------
(* Bounds of the model *)

\* optional inputs are drawn from None, 0, 1, .., MaxNum
MaxNum == 2

\* setup.py declares Python 2.7 and Python 3.3 to 3.7, on CPython and PyPy.
\* The versions behave in three ways here: 27 is Python 2.7; 35 stands for
\* Python 3.3 to 3.5; 37 stands for Python 3.6 and later.
PythonVersions == {27, 35, 37}

----------------------------------------------------------------------------
(* Values: None, numbers, exceptions in flight *)

None == <<>>
ZeroDivisionError == <<"ZeroDivisionError">>
TypeError == <<"TypeError">>
ValueError == <<"ValueError">>
\* a parameter with a non-None default that the caller left out
Omitted == <<"omitted">>

IsNum(x) == Len(x) = 2
IsNone(x) == x = None
IsErr(x) == x = ZeroDivisionError \/ x = TypeError \/ x = ValueError

AbsInt(n) == IF n < 0 THEN -n ELSE n

RECURSIVE GCD(_, _)
GCD(a, b) == IF b = 0 THEN a ELSE GCD(b, a % b)

\* the rational n/d in lowest terms with a positive denominator (d # 0)
Rat(n, d) ==
    LET s == IF d < 0 THEN -1 ELSE 1
        h == GCD(AbsInt(n), AbsInt(d))
    IN  <<(s * n) \div h, (s * d) \div h>>

Num(n) == <<n, 1>>

\* bool(x) of None and of a number: `if rho and mu` tests this
Truthy(x) == IsNum(x) /\ x[1] # 0

\* the first exception raised by evaluating a, then b, then a (op) b on numbers
Operands(a, b) ==
    IF IsErr(a) THEN a
    ELSE IF IsErr(b) THEN b
    ELSE IF ~IsNum(a) \/ ~IsNum(b) THEN TypeError
    ELSE None

Mul(a, b) ==
    IF Operands(a, b) # None THEN Operands(a, b)
    ELSE LET g1 == GCD(AbsInt(a[1]), b[2])
             g2 == GCD(AbsInt(b[1]), a[2])
         IN  <<(a[1] \div g1) * (b[1] \div g2), (a[2] \div g2) * (b[2] \div g1)>>

\* true division (from __future__ import division): x/0 raises
Div(a, b) ==
    IF Operands(a, b) # None THEN Operands(a, b)
    ELSE IF b[1] = 0 THEN ZeroDivisionError
    ELSE Mul(a, IF b[1] < 0 THEN <<-b[2], -b[1]>> ELSE <<b[2], b[1]>>)

Add(a, b) ==
    IF Operands(a, b) # None THEN Operands(a, b)
    ELSE LET h == GCD(a[2], b[2])
         IN  Rat(a[1] * (b[2] \div h) + b[1] * (a[2] \div h), (a[2] \div h) * b[2])

Neg(a) == IF IsNum(a) THEN <<-a[1], a[2]>> ELSE IF IsErr(a) THEN a ELSE TypeError

Sub(a, b) ==
    IF Operands(a, b) # None THEN Operands(a, b)
    ELSE Add(a, Neg(b))

\* abs(x)
Abs(a) == IF IsNum(a) THEN <<AbsInt(a[1]), a[2]>> ELSE IF IsErr(a) THEN a ELSE TypeError

\* x**2 and x**3
Sq(a) == Mul(a, a)
Cube(a) == Mul(Mul(a, a), a)

----------------------------------------------------------------------------
(* Square roots.  x**0.5 of a rational x is kept exact as c*sqrt(r), the    *)
(* tuple <<c1, c2, r1, r2>> of the coefficient c = c1/c2 and the radicand   *)
(* r = r1/r2, with c # 0, r # 1, and r1, r2 coprime and free of square      *)
(* factors.  A negative radicand is the imaginary number c*i*sqrt(-r): the  *)
(* complex result Python 3 gives for a negative number raised to 0.5.       *)

IsSurd(x) == Len(x) = 4
IsValue(x) == IsNum(x) \/ IsSurd(x)

Coef(x) == <<x[1], x[2]>>
Radicand(x) == IF IsSurd(x) THEN <<x[3], x[4]>> ELSE Num(1)
Imag(x) == IsSurd(x) /\ x[3] < 0

\* the integer part of the square root of n >= 0
ISqrt(n) == CHOOSE m \in 0 .. n : m * m <= n /\ (m + 1) * (m + 1) > n

\* the largest s with s*s dividing n (n > 0)
SquarePart(n) ==
    LET S == {s \in 1 .. ISqrt(n) : n % (s * s) = 0}
    IN  CHOOSE s \in S : \A t \in S : t <= s

\* c*sqrt(r) for a radicand r that is already free of square factors
Surd(c, r) ==
    IF c[1] = 0 \/ r[1] = 0 THEN Num(0)
    ELSE IF r = Num(1) THEN c
    ELSE <<c[1], c[2], r[1], r[2]>>

\* x**0.5 of a number: Python 2 raises ValueError for a negative x, Python 3
\* returns a complex number (only rationals are ever raised to 0.5 here)
PowHalf(x) ==
    IF IsErr(x) THEN x
    ELSE IF ~IsNum(x) THEN TypeError
    ELSE IF x[1] < 0 /\ python = 27 THEN ValueError
    ELSE IF x[1] = 0 THEN Num(0)
    ELSE LET s == SquarePart(AbsInt(x[1]))
             t == SquarePart(x[2])
         IN  Surd(<<s, t>>, <<x[1] \div (s * s), x[2] \div (t * t)>>)

OperandsS(a, b) ==
    IF IsErr(a) THEN a
    ELSE IF IsErr(b) THEN b
    ELSE IF ~IsValue(a) \/ ~IsValue(b) THEN TypeError
    ELSE None

\* a * b on floats and complex numbers: sqrt(p)*sqrt(q) = h*sqrt((p/h)*(q/h))
\* for h = gcd(p, q), and i*i = -1
MulS(a, b) ==
    IF OperandsS(a, b) # None THEN OperandsS(a, b)
    ELSE LET ra == Radicand(a)
             rb == Radicand(b)
             hn == GCD(AbsInt(ra[1]), AbsInt(rb[1]))
             hd == GCD(ra[2], rb[2])
             c == Mul(Mul(Coef(a), Coef(b)), <<hn, hd>>)
             r == Mul(<<ra[1] \div hn, ra[2] \div hd>>, <<rb[1] \div hn, rb[2] \div hd>>)
         IN  Surd(IF Imag(a) /\ Imag(b) THEN Neg(c) ELSE c, r)

\* a / b on floats and complex numbers: 1/sqrt(r) = sqrt(1/r), 1/i = -i
DivS(a, b) ==
    IF OperandsS(a, b) # None THEN OperandsS(a, b)
    ELSE IF b[1] = 0 THEN ZeroDivisionError
    ELSE LET rb == Radicand(b)
             inv == Div(Num(1), Coef(b))
         IN  MulS(a, Surd(IF Imag(b) THEN Neg(inv) ELSE inv,
                          IF Imag(b) THEN <<-rb[2], -rb[1]>> ELSE <<rb[2], rb[1]>>))

----------------------------------------------------------------------------
(* Outcomes of a call *)

\* val is the number returned; ref is the reference returned when the value is
\* an object of the heap, and 0 otherwise
NoOutcome ==
    [kind |-> "pending", val |-> None, exc |-> "", msg |-> <<>>, routes |-> {}, ref |-> 0]

\* `return v` after evaluating the formulas of the routes rs; an exception
\* raised while v was computed leaves the function instead
Return(v, rs) ==
    IF IsErr(v)
    THEN [kind |-> "raise", val |-> None, exc |-> v[1], msg |-> <<>>, routes |-> rs,
          ref |-> 0]
    ELSE [kind |-> "return", val |-> v, exc |-> "", msg |-> <<>>, routes |-> rs,
          ref |-> 0]

\* `raise Exception(msg)`: no route formula has been evaluated
Raise(msg) ==
    [kind |-> "raise", val |-> None, exc |-> "Exception", msg |-> msg, routes |-> {},
     ref |-> 0]

----------------------------------------------------------------------------
(* Module-level constants *)

\* standard gravity, 9.80665 m/s^2, imported from fluids.constants
g == <<196133, 20000>>

\* the offset of the Celsius scale, 273.15 K
zero_Celsius == <<5463, 20>>

\* 1.0/1.8, the size of a Fahrenheit degree in kelvins
degree_Fahrenheit == <<5, 9>>

\* the molar gas constant, 8.31446 J/mol/K, imported from fluids.constants
R == <<415723, 50000>>

\* default_g is the value of g when the def statements with g=g ran
ModuleConsts ==
    [g |-> g, R |-> R, zero_Celsius |-> zero_Celsius,
     degree_Fahrenheit |-> degree_Fahrenheit, default_g |-> g]

\* the module-level constants after the call f(**a) with outcome o: no
\* function has a global statement, so an assignment such as gravity's
\* `g = ...` binds a local variable, and an argument is never stored
Globals_gravity_global(f, a, o, c) ==
    IF f = "gravity" /\ o.kind = "return" THEN [c EXCEPT !.g = o.val] ELSE c

Globals_keeps_argument(f, a, o, c) ==
    IF "g" \in DOMAIN a /\ a["g"] # <<"omitted">> THEN [c EXCEPT !.default_g = a["g"]] ELSE c

Globals(f, a, o, c) == c

\* the value of a parameter with a non-None default
Default(x, d) == IF x = Omitted THEN d ELSE x

----------------------------------------------------------------------------
(* The messages of the exceptions, as their words in order *)

MsgViscosity ==
    <<"Either", "density", "and", "viscosity", "or", "dynamic", "viscosity",
      "is", "needed">>

MsgDiffusivity ==
    <<"Either", "heat", "capacity", "and", "thermal", "conductivity", "and",
      "density", "or", "thermal", "diffusivity", "is", "needed">>

MsgSchmidt ==
    <<"Insufficient", "information", "provided", "for", "Schmidt", "number",
      "calculation">>

MsgLewis == <<"Insufficient", "information", "provided", "for", "Le", "calculation">>

MsgPrandtl == <<"Insufficient", "information", "provided", "for", "Pr", "calculation">>

----------------------------------------------------------------------------
(* The multi-route functions *)

\* Reynolds with the direct input nu tested before (rho, mu)
Reynolds_nu_first(V, D, rho, mu, nu) ==
    IF Truthy(nu)
    THEN Return(Div(Mul(V, D), nu), {2})
    ELSE IF Truthy(rho) /\ Truthy(mu)
    THEN Return(Div(Mul(V, D), Div(mu, rho)), {1})
    ELSE Raise(MsgViscosity)

Reynolds(V, D, rho, mu, nu) ==
    IF Truthy(rho) /\ Truthy(mu)
    THEN Return(Div(Mul(V, D), Div(mu, rho)), {1})
    ELSE IF ~Truthy(nu)
    THEN Raise(MsgViscosity)
    ELSE Return(Div(Mul(V, D), nu), {2})

\* Peclet_heat with `elif alpha is None` in place of `elif not alpha`
Peclet_heat_alpha_is_none(V, L, rho, Cp, k, alpha) ==
    IF Truthy(rho) /\ Truthy(Cp) /\ Truthy(k)
    THEN Return(Div(Mul(V, L), Div(k, Mul(rho, Cp))), {1})
    ELSE IF alpha = None
    THEN Raise(MsgDiffusivity)
    ELSE Return(Div(Mul(V, L), alpha), {2})

Peclet_heat(V, L, rho, Cp, k, alpha) ==
    IF Truthy(rho) /\ Truthy(Cp) /\ Truthy(k)
    THEN Return(Div(Mul(V, L), Div(k, Mul(rho, Cp))), {1})
    ELSE IF ~Truthy(alpha)
    THEN Raise(MsgDiffusivity)
    ELSE Return(Div(Mul(V, L), alpha), {2})

Fourier_heat(t, L, rho, Cp, k, alpha) ==
    IF Truthy(rho) /\ Truthy(Cp) /\ Truthy(k)
    THEN Return(Div(Mul(t, Div(k, Mul(rho, Cp))), Sq(L)), {1})
    ELSE IF ~Truthy(alpha)
    THEN Raise(MsgDiffusivity)
    ELSE Return(Div(Mul(t, alpha), Sq(L)), {2})

\* Graetz_heat with alpha = k/rho*Cp, the parentheses of k/(rho*Cp) lost
Graetz_heat_lost_parentheses(V, D, x, rho, Cp, k, alpha) ==
    IF Truthy(rho) /\ Truthy(Cp) /\ Truthy(k)
    THEN Return(Div(Mul(V, Sq(D)), Mul(x, Mul(Div(k, rho), Cp))), {1})
    ELSE IF ~Truthy(alpha)
    THEN Raise(MsgDiffusivity)
    ELSE Return(Div(Mul(V, Sq(D)), Mul(x, alpha)), {2})

\* Graetz_heat with V*D in place of V*D**2
Graetz_heat_plain_D(V, D, x, rho, Cp, k, alpha) ==
    IF Truthy(rho) /\ Truthy(Cp) /\ Truthy(k)
    THEN Return(Div(Mul(V, D), Mul(x, Div(k, Mul(rho, Cp)))), {1})
    ELSE IF ~Truthy(alpha)
    THEN Raise(MsgDiffusivity)
    ELSE Return(Div(Mul(V, D), Mul(x, alpha)), {2})

Graetz_heat(V, D, x, rho, Cp, k, alpha) ==
    IF Truthy(rho) /\ Truthy(Cp) /\ Truthy(k)
    THEN Return(Div(Mul(V, Sq(D)), Mul(x, Div(k, Mul(rho, Cp)))), {1})
    ELSE IF ~Truthy(alpha)
    THEN Raise(MsgDiffusivity)
    ELSE Return(Div(Mul(V, Sq(D)), Mul(x, alpha)), {2})

\* Schmidt with `elif nu is not None` in place of `elif nu`
Schmidt_nu_not_none(D, mu, nu, rho) ==
    IF Truthy(rho) /\ Truthy(mu)
    THEN Return(Div(mu, Mul(rho, D)), {1})
    ELSE IF nu # None
    THEN Return(Div(nu, D), {2})
    ELSE Raise(MsgSchmidt)

Schmidt(D, mu, nu, rho) ==
    IF Truthy(rho) /\ Truthy(mu)
    THEN Return(Div(mu, Mul(rho, D)), {1})
    ELSE IF Truthy(nu)
    THEN Return(Div(nu, D), {2})
    ELSE Raise(MsgSchmidt)

\* Lewis with the direct input alpha tested before (k, Cp, rho)
Lewis_alpha_first(D, alpha, Cp, k, rho) ==
    IF Truthy(alpha)
    THEN Return(Div(alpha, D), {2})
    ELSE IF Truthy(k) /\ Truthy(Cp) /\ Truthy(rho)
    THEN Return(Div(Div(k, Mul(rho, Cp)), D), {1})
    ELSE Raise(MsgLewis)

Lewis(D, alpha, Cp, k, rho) ==
    IF Truthy(k) /\ Truthy(Cp) /\ Truthy(rho)
    THEN Return(Div(Div(k, Mul(rho, Cp)), D), {1})
    ELSE IF Truthy(alpha)
    THEN Return(Div(alpha, D), {2})
    ELSE Raise(MsgLewis)

\* Prandtl with independent `if`s: with the first and the third route both
\* supplied it evaluates both formulas and returns their mean
Prandtl_blend(Cp, k, mu, nu, rho, alpha) ==
    IF Truthy(k) /\ Truthy(Cp) /\ Truthy(mu) /\ Truthy(nu) /\ Truthy(alpha)
    THEN Return(Div(Add(Div(Mul(Cp, mu), k), Div(nu, alpha)), Num(2)), {1, 3})
    ELSE IF Truthy(k) /\ Truthy(Cp) /\ Truthy(mu)
    THEN Return(Div(Mul(Cp, mu), k), {1})
    ELSE IF Truthy(nu) /\ Truthy(rho) /\ Truthy(Cp) /\ Truthy(k)
    THEN Return(Div(Mul(Mul(nu, rho), Cp), k), {2})
    ELSE IF Truthy(nu) /\ Truthy(alpha)
    THEN Return(Div(nu, alpha), {3})
    ELSE Raise(MsgPrandtl)

\* Prandtl with the (nu, alpha) route tested before the (nu, rho, Cp, k) route
Prandtl_alpha_before_rho(Cp, k, mu, nu, rho, alpha) ==
    IF Truthy(k) /\ Truthy(Cp) /\ Truthy(mu)
    THEN Return(Div(Mul(Cp, mu), k), {1})
    ELSE IF Truthy(nu) /\ Truthy(alpha)
    THEN Return(Div(nu, alpha), {3})
    ELSE IF Truthy(nu) /\ Truthy(rho) /\ Truthy(Cp) /\ Truthy(k)
    THEN Return(Div(Mul(Mul(nu, rho), Cp), k), {2})
    ELSE Raise(MsgPrandtl)

Prandtl(Cp, k, mu, nu, rho, alpha) ==
    IF Truthy(k) /\ Truthy(Cp) /\ Truthy(mu)
    THEN Return(Div(Mul(Cp, mu), k), {1})
    ELSE IF Truthy(nu) /\ Truthy(rho) /\ Truthy(Cp) /\ Truthy(k)
    THEN Return(Div(Mul(Mul(nu, rho), Cp), k), {2})
    ELSE IF Truthy(nu) /\ Truthy(alpha)
    THEN Return(Div(nu, alpha), {3})
    ELSE Raise(MsgPrandtl)

\* Grashof with the signed difference T2 - T1, the abs() lost
Grashof_signed_difference(L, beta, T1, T2, rho, mu, nu, gv) ==
    IF Truthy(rho) /\ Truthy(mu)
    THEN Return(Div(Mul(Mul(Mul(gv, beta), Sub(T2, T1)), Cube(L)),
                    Sq(Div(mu, rho))), {1})
    ELSE IF ~Truthy(nu)
    THEN Raise(MsgViscosity)
    ELSE Return(Div(Mul(Mul(Mul(gv, beta), Sub(T2, T1)), Cube(L)), Sq(nu)), {2})

\* Grashof testing T1 like rho and mu before it takes the first route
Grashof_tests_temperature(L, beta, T1, T2, rho, mu, nu, gv) ==
    IF Truthy(rho) /\ Truthy(mu) /\ Truthy(T1)
    THEN Return(Div(Mul(Mul(Mul(gv, beta), Abs(Sub(T2, T1))), Cube(L)),
                    Sq(Div(mu, rho))), {1})
    ELSE IF ~Truthy(nu)
    THEN Raise(MsgViscosity)
    ELSE Return(Div(Mul(Mul(Mul(gv, beta), Abs(Sub(T2, T1))), Cube(L)), Sq(nu)), {2})

\* T2 and gv arrive with their defaults (0 and the module's g) filled in
Grashof(L, beta, T1, T2, rho, mu, nu, gv) ==
    IF Truthy(rho) /\ Truthy(mu)
    THEN Return(Div(Mul(Mul(Mul(gv, beta), Abs(Sub(T2, T1))), Cube(L)),
                    Sq(Div(mu, rho))), {1})
    ELSE IF ~Truthy(nu)
    THEN Raise(MsgViscosity)
    ELSE Return(Div(Mul(Mul(Mul(gv, beta), Abs(Sub(T2, T1))), Cube(L)), Sq(nu)), {2})

----------------------------------------------------------------------------
(* The single-formula functions *)

\* Python's True and False are the integers 1 and 0
True == Num(1)
False == Num(0)

\* the literals 0.5 and 1000.
Half == <<1, 2>>
Thousand == Num(1000)

MsgConverter ==
    <<"Inputs", "must", "be", "rho", "and", "one", "of", "mu", "and", "nu">>

thermal_diffusivity(k, rho, Cp) == Return(Div(k, Mul(rho, Cp)), {1})

\* reads the module's R: the function has no parameter for it
c_ideal_gas(T, k, MW) ==
    LET Rspecific == Div(Mul(consts.R, Thousand), MW)
    IN  Return(PowHalf(Mul(Mul(k, Rspecific), T)), {1})

Confinement_standard_g(D, rhol, rhog, sigma, gv) ==
    Return(DivS(PowHalf(Div(sigma, Mul(consts.g, Sub(rhol, rhog)))), D), {1})

Confinement(D, rhol, rhog, sigma, gv) ==
    Return(DivS(PowHalf(Div(sigma, Mul(gv, Sub(rhol, rhog)))), D), {1})

Morton(rhol, rhog, mul, sigma, gv) ==
    LET mul2 == Mul(mul, mul)
    IN  Return(Div(Mul(Mul(Mul(gv, mul2), mul2), Sub(rhol, rhog)),
                   Mul(Mul(Mul(Mul(rhol, rhol), sigma), sigma), sigma)), {1})

\* reads the module's g: the function has no parameter for it
Bond(rhol, rhog, sigma, L) ==
    Return(Div(Mul(Mul(consts.g, Sub(rhol, rhog)), Sq(L)), sigma), {1})

Froude_squares_speed(V, L, gv, squared) ==
    LET Fr == DivS(V, PowHalf(Mul(L, gv)))
    IN  Return(IF ~IsErr(Fr) /\ Truthy(squared) THEN MulS(Fr, V) ELSE Fr, {1})

Froude(V, L, gv, squared) ==
    LET Fr == DivS(V, PowHalf(Mul(L, gv)))
    IN  Return(IF ~IsErr(Fr) /\ Truthy(squared) THEN MulS(Fr, Fr) ELSE Fr, {1})

Froude_densimetric_light(V, L, rho1, rho2, heavy, gv) ==
    LET rho3 == rho2
    IN  Return(MulS(DivS(V, PowHalf(Mul(gv, L))),
                    PowHalf(Div(rho3, Sub(rho1, rho2)))), {1})

Froude_densimetric(V, L, rho1, rho2, heavy, gv) ==
    LET rho3 == IF Truthy(heavy) THEN rho1 ELSE rho2
    IN  Return(MulS(DivS(V, PowHalf(Mul(gv, L))),
                    PowHalf(Div(rho3, Sub(rho1, rho2)))), {1})

Archimedes(L, rhof, rhop, mu, gv) ==
    Return(Div(Mul(Mul(Mul(Cube(L), rhof), Sub(rhop, rhof)), gv), Sq(mu)), {1})

\* nu_mu_converter whose guard has lost `or (not nu and not mu)`
nu_mu_converter_neither_passes(rho, mu, nu) ==
    IF (Truthy(nu) /\ Truthy(mu)) \/ ~Truthy(rho)
    THEN Raise(MsgConverter)
    ELSE IF Truthy(mu) THEN Return(Div(mu, rho), {1})
    ELSE IF Truthy(nu) THEN Return(Mul(nu, rho), {2})
    ELSE Return(None, {})

nu_mu_converter(rho, mu, nu) ==
    IF (Truthy(nu) /\ Truthy(mu)) \/ ~Truthy(rho) \/ (~Truthy(nu) /\ ~Truthy(mu))
    THEN Raise(MsgConverter)
    ELSE IF Truthy(mu) THEN Return(Div(mu, rho), {1})
    ELSE IF Truthy(nu) THEN Return(Mul(nu, rho), {2})
    ELSE Return(None, {})

\* sin(q*pi)**2 for the angles where it is rational: q = n/d in lowest terms
\* with d among 1, 2, 3, 4 and 6 (the multiples of 30 and of 45 degrees).  At
\* every other angle the value is irrational and the operator has no value.
SinSquared(q) ==
    CASE q[2] = 1 -> Num(0)
      [] q[2] = 2 -> Num(1)
      [] q[2] = 3 -> <<3, 4>>
      [] q[2] = 4 -> <<1, 2>>
      [] q[2] = 6 -> <<1, 4>>

\* the literals 9.780356, 0.0052885, 0.0000059 and 3.086E-6
GravityEquator == <<2445089, 250000>>
GravityLatitude == <<10577, 2000000>>
GravityLatitude2 == <<59, 10000000>>
GravityHeight == <<1543, 500000000>>

\* the angle q*pi in radians: 0, or the multiple q of pi kept symbolic
Radians(q) == IF q[1] = 0 THEN Num(0) ELSE <<"pi", q[1], q[2]>>

\* lat is latitude*pi/180, kept in units of pi; g is a local variable.  The
\* products fit the integers of TLC when both sines are 0, that is when the
\* latitude is a multiple of 180 degrees.
gravity(latitude, H) ==
    LET lat == Div(latitude, Num(180))
        gl == Sub(Mul(GravityEquator,
                      Sub(Add(Num(1), Mul(GravityLatitude, SinSquared(lat))),
                          Mul(GravityLatitude2, SinSquared(Mul(Num(2), lat))))),
                  Mul(GravityHeight, H))
    IN  Return(gl, {1})

\* the default Darcy friction factor of the signatures, fd=0.015
default_fd == <<3, 200>>

K_from_f(fd, L, D) == Return(Div(Mul(fd, L), D), {1})

K_from_L_equiv(L_D, fd) == Return(Mul(fd, L_D), {1})

L_equiv_from_K(K, fd) == Return(Div(K, fd), {1})

\* L_from_K with K*D*fd, the division by fd lost
L_from_K_times_fd(K, D, fd) == Return(Mul(Mul(K, D), fd), {1})

L_from_K(K, D, fd) == Return(Div(Mul(K, D), fd), {1})

dP_from_K_linear(K, rho, V) == Return(Mul(Mul(Mul(K, Half), rho), V), {1})

dP_from_K(K, rho, V) == Return(Mul(Mul(Mul(Mul(K, Half), rho), V), V), {1})

head_from_K(K, V, gv) == Return(Div(Mul(Mul(Mul(K, Half), V), V), gv), {1})

head_from_P(P, rho, gv) == Return(Div(Div(P, rho), gv), {1})

P_from_head(head, rho, gv) == Return(Mul(Mul(head, rho), gv), {1})

----------------------------------------------------------------------------
(* The inputs of the calls *)

\* a parameter that defaults to None: left out, zero, or a positive number
Opt == {None} \cup {Num(n) : n \in 0 .. MaxNum}

\* a required number: zero, positive or negative
Req == {Num(0), Num(2), Num(-3)}

\* a required number that is not zero
NonZero == {Num(2), Num(-3)}

RouteFns ==
    {"Reynolds", "Peclet_heat", "Fourier_heat", "Graetz_heat", "Schmidt", "Lewis",
     "Prandtl", "Grashof"}

RouteArgs(f) ==
    CASE f = "Reynolds" -> [V : Req, D : Req, rho : Opt, mu : Opt, nu : Opt]
      [] f = "Peclet_heat" -> [V : Req, L : Req, rho : Opt, Cp : Opt, k : Opt, alpha : Opt]
      [] f = "Fourier_heat" -> [t : Req, L : Req, rho : Opt, Cp : Opt, k : Opt, alpha : Opt]
      [] f = "Graetz_heat" ->
            [V : NonZero, D : Req, x : Req, rho : Opt, Cp : Opt, k : Opt, alpha : Opt]
      [] f = "Schmidt" -> [D : Req, mu : Opt, nu : Opt, rho : Opt]
      [] f = "Lewis" -> [D : Req \cup {None}, alpha : Opt, Cp : Opt, k : Opt, rho : Opt]
      [] f = "Prandtl" -> [Cp : Opt, k : Opt, mu : Opt, nu : Opt, rho : Opt, alpha : Opt]
      [] f = "Grashof" ->
            [L : Req, beta : NonZero, T1 : Req, T2 : Req \cup {Omitted},
             rho : Opt, mu : Opt, nu : Opt, g : {Omitted, Num(1)}]

\* a density or another nonnegative quantity
Dens == {Num(n) : n \in 0 .. MaxNum}

\* a parameter g=g or R that the caller leaves out or sets
Override == {Omitted, Num(1)}

\* a flag that defaults: left out, False or True
Flag == {Omitted, False, True}

SingleFns ==
    {"thermal_diffusivity", "alpha", "Pr", "c_ideal_gas", "Confinement", "Morton", "Bond",
     "Eotvos", "Froude", "Froude_densimetric", "Archimedes", "nu_mu_converter",
     "gravity", "dP_from_K", "head_from_K", "head_from_P", "P_from_head",
     "K_from_f", "K_from_L_equiv", "L_equiv_from_K", "L_from_K"}

\* a friction factor: zero, 0.015 or 0.018
Friction == {Num(0), default_fd, <<9, 500>>}

\* a friction factor that defaults: left out, zero or 0.018
OptFriction == {Omitted, Num(0), <<9, 500>>}

\* latitudes whose sine is 0, heights in metres
Latitudes == {Num(0), Num(180), Num(-180)}
Heights == {Num(0), Num(1000), Num(-500)}

\* g and R are also passed to the functions that have no such parameter
SingleArgs(f) ==
    CASE f \in {"thermal_diffusivity", "alpha"} -> [k : Req, rho : Req, Cp : Req]
      [] f = "Pr" -> RouteArgs("Prandtl")
      [] f = "c_ideal_gas" -> [T : Req, k : Req, MW : Req, R : Override]
      [] f = "Confinement" -> [D : Req, rhol : Dens, rhog : Dens, sigma : Req, g : Override]
      [] f = "Morton" -> [rhol : Dens, rhog : Dens, mul : Req, sigma : Req, g : Override]
      [] f \in {"Bond", "Eotvos"} ->
            [rhol : Dens, rhog : Dens, sigma : Req, L : Req, g : Override]
      [] f = "Froude" -> [V : Req, L : Req, g : Override, squared : Flag]
      [] f = "Froude_densimetric" ->
            [V : Req, L : Req, rho1 : Dens, rho2 : Dens, heavy : Flag, g : Override]
      [] f = "Archimedes" -> [L : Req, rhof : Dens, rhop : Dens, mu : Req, g : Override]
      [] f = "nu_mu_converter" -> [rho : Dens \cup {None}, mu : Opt, nu : Opt]
      [] f = "gravity" -> [latitude : Latitudes, H : Heights]
      [] f = "dP_from_K" ->
            [K : Req \cup {Num(10)}, rho : Req \cup {Num(1000)}, V : Req \cup {Num(3)}]
      [] f = "head_from_K" -> [K : Req, V : Req, g : Override]
      [] f = "head_from_P" -> [P : Req, rho : Req, g : Override]
      [] f = "P_from_head" -> [head : Req, rho : Req, g : Override]
      [] f = "K_from_f" -> [fd : Friction, L : Req \cup {Num(100)}, D : Req \cup {<<3, 10>>}]
      [] f = "K_from_L_equiv" -> [L_D : Req \cup {Num(240)}, fd : OptFriction]
      [] f = "L_equiv_from_K" -> [K : Req \cup {<<18, 5>>}, fd : OptFriction]
      [] f = "L_from_K" ->
            [K : Req \cup {Num(6)}, D : Req \cup {<<3, 10>>}, fd : OptFriction]

\* Eotvos = Bond, alpha = thermal_diffusivity, Pr = Prandtl
Eotvos(rhol, rhog, sigma, L) == Bond(rhol, rhog, sigma, L)

alpha_by_mass(k, rho, Cp) == Return(Div(k, rho), {1})

alpha(k, rho, Cp) == thermal_diffusivity(k, rho, Cp)

Pr(Cp, k, mu, nu, rho, alphav) == Prandtl(Cp, k, mu, nu, rho, alphav)

\* a keyword argument that names no parameter of the function: TypeError
Unexpected(a, p) == IF a[p] = Omitted THEN None ELSE TypeError

\* the call f(**a)
Call(f, a) ==
    CASE f = "thermal_diffusivity" -> thermal_diffusivity(a.k, a.rho, a.Cp)
      [] f = "alpha" -> alpha(a.k, a.rho, a.Cp)
      [] f = "Pr" -> Pr(a.Cp, a.k, a.mu, a.nu, a.rho, a.alpha)
      [] f = "c_ideal_gas" ->
            IF Unexpected(a, "R") # None THEN Return(Unexpected(a, "R"), {})
            ELSE c_ideal_gas(a.T, a.k, a.MW)
      [] f = "Confinement" ->
            Confinement(a.D, a.rhol, a.rhog, a.sigma, Default(a.g, consts.default_g))
      [] f = "Morton" -> Morton(a.rhol, a.rhog, a.mul, a.sigma, Default(a.g, consts.default_g))
      [] f = "Bond" ->
            IF Unexpected(a, "g") # None THEN Return(Unexpected(a, "g"), {})
            ELSE Bond(a.rhol, a.rhog, a.sigma, a.L)
      [] f = "Eotvos" ->
            IF Unexpected(a, "g") # None THEN Return(Unexpected(a, "g"), {})
            ELSE Eotvos(a.rhol, a.rhog, a.sigma, a.L)
      [] f = "Froude" ->
            Froude(a.V, a.L, Default(a.g, consts.default_g), Default(a.squared, False))
      [] f = "Froude_densimetric" ->
            Froude_densimetric(a.V, a.L, a.rho1, a.rho2, Default(a.heavy, True),
                               Default(a.g, consts.default_g))
      [] f = "Archimedes" ->
            Archimedes(a.L, a.rhof, a.rhop, a.mu, Default(a.g, consts.default_g))
      [] f = "nu_mu_converter" -> nu_mu_converter(a.rho, a.mu, a.nu)
      [] f = "gravity" -> gravity(a.latitude, a.H)
      [] f = "dP_from_K" -> dP_from_K(a.K, a.rho, a.V)
      [] f = "head_from_K" -> head_from_K(a.K, a.V, Default(a.g, consts.default_g))
      [] f = "head_from_P" -> head_from_P(a.P, a.rho, Default(a.g, consts.default_g))
      [] f = "P_from_head" -> P_from_head(a.head, a.rho, Default(a.g, consts.default_g))
      [] f = "K_from_f" -> K_from_f(a.fd, a.L, a.D)
      [] f = "K_from_L_equiv" -> K_from_L_equiv(a.L_D, Default(a.fd, default_fd))
      [] f = "L_equiv_from_K" -> L_equiv_from_K(a.K, Default(a.fd, default_fd))
      [] f = "L_from_K" -> L_from_K(a.K, a.D, Default(a.fd, default_fd))
      [] f = "Reynolds" -> Reynolds(a.V, a.D, a.rho, a.mu, a.nu)
      [] f = "Peclet_heat" -> Peclet_heat(a.V, a.L, a.rho, a.Cp, a.k, a.alpha)
      [] f = "Fourier_heat" -> Fourier_heat(a.t, a.L, a.rho, a.Cp, a.k, a.alpha)
      [] f = "Graetz_heat" -> Graetz_heat(a.V, a.D, a.x, a.rho, a.Cp, a.k, a.alpha)
      [] f = "Schmidt" -> Schmidt(a.D, a.mu, a.nu, a.rho)
      [] f = "Lewis" -> Lewis(a.D, a.alpha, a.Cp, a.k, a.rho)
      [] f = "Prandtl" -> Prandtl(a.Cp, a.k, a.mu, a.nu, a.rho, a.alpha)
      [] f = "Grashof" ->
            Grashof(a.L, a.beta, a.T1, Default(a.T2, Num(0)), a.rho, a.mu, a.nu,
                    Default(a.g, consts.default_g))

----------------------------------------------------------------------------
(* The state machine: one call of one function on drawn inputs *)

InitRoutes ==
    /\ fn \in RouteFns
    /\ args \in RouteArgs(fn)
    /\ out = NoOutcome
    /\ pc = "call"
    /\ heap = <<>>
    /\ consts = ModuleConsts
    /\ python \in PythonVersions
    /\ log = <<>>
    /\ threads = <<>>

CallReynolds ==
    /\ pc = "call"
    /\ fn = "Reynolds"
    /\ out' = Call("Reynolds", args)
    /\ pc' = "done"
    /\ consts' = Globals(fn, args, out', consts)
    /\ log' = Append(log, [fn |-> fn, args |-> args, out |-> out'])
    /\ UNCHANGED <<fn, args, heap, python, threads>>

CallPeclet_heat ==
    /\ pc = "call"
    /\ fn = "Peclet_heat"
    /\ out' = Call("Peclet_heat", args)
    /\ pc' = "done"
    /\ consts' = Globals(fn, args, out', consts)
    /\ log' = Append(log, [fn |-> fn, args |-> args, out |-> out'])
    /\ UNCHANGED <<fn, args, heap, python, threads>>

CallFourier_heat ==
    /\ pc = "call"
    /\ fn = "Fourier_heat"
    /\ out' = Call("Fourier_heat", args)
    /\ pc' = "done"
    /\ consts' = Globals(fn, args, out', consts)
    /\ log' = Append(log, [fn |-> fn, args |-> args, out |-> out'])
    /\ UNCHANGED <<fn, args, heap, python, threads>>

CallGraetz_heat ==
    /\ pc = "call"
    /\ fn = "Graetz_heat"
    /\ out' = Call("Graetz_heat", args)
    /\ pc' = "done"
    /\ consts' = Globals(fn, args, out', consts)
    /\ log' = Append(log, [fn |-> fn, args |-> args, out |-> out'])
    /\ UNCHANGED <<fn, args, heap, python, threads>>

CallSchmidt ==
    /\ pc = "call"
    /\ fn = "Schmidt"
    /\ out' = Call("Schmidt", args)
    /\ pc' = "done"
    /\ consts' = Globals(fn, args, out', consts)
    /\ log' = Append(log, [fn |-> fn, args |-> args, out |-> out'])
    /\ UNCHANGED <<fn, args, heap, python, threads>>

CallLewis ==
    /\ pc = "call"
    /\ fn = "Lewis"
    /\ out' = Call("Lewis", args)
    /\ pc' = "done"
    /\ consts' = Globals(fn, args, out', consts)
    /\ log' = Append(log, [fn |-> fn, args |-> args, out |-> out'])
    /\ UNCHANGED <<fn, args, heap, python, threads>>

CallPrandtl ==
    /\ pc = "call"
    /\ fn = "Prandtl"
    /\ out' = Call("Prandtl", args)
    /\ pc' = "done"
    /\ consts' = Globals(fn, args, out', consts)
    /\ log' = Append(log, [fn |-> fn, args |-> args, out |-> out'])
    /\ UNCHANGED <<fn, args, heap, python, threads>>

CallGrashof ==
    /\ pc = "call"
    /\ fn = "Grashof"
    /\ out' = Call("Grashof", args)
    /\ pc' = "done"
    /\ consts' = Globals(fn, args, out', consts)
    /\ log' = Append(log, [fn |-> fn, args |-> args, out |-> out'])
    /\ UNCHANGED <<fn, args, heap, python, threads>>

NextRoutes ==
    \/ CallReynolds
    \/ CallPeclet_heat
    \/ CallFourier_heat
    \/ CallGraetz_heat
    \/ CallSchmidt
    \/ CallLewis
    \/ CallPrandtl
    \/ CallGrashof

SpecRoutes == InitRoutes /\ [][NextRoutes]_vars

----------------------------------------------------------------------------
(* The state machine of the single-formula functions and the synonyms *)

InitSingle ==
    /\ fn \in SingleFns
    /\ args \in SingleArgs(fn)
    /\ out = NoOutcome
    /\ pc = "call"
    /\ heap = <<>>
    /\ consts = ModuleConsts
    /\ python \in PythonVersions
    /\ log = <<>>
    /\ threads = <<>>

Callthermal_diffusivity ==
    /\ pc = "call"
    /\ fn = "thermal_diffusivity"
    /\ out' = Call("thermal_diffusivity", args)
    /\ pc' = "done"
    /\ consts' = Globals(fn, args, out', consts)
    /\ log' = Append(log, [fn |-> fn, args |-> args, out |-> out'])
    /\ UNCHANGED <<fn, args, heap, python, threads>>

Callalpha ==
    /\ pc = "call"
    /\ fn = "alpha"
    /\ out' = Call("alpha", args)
    /\ pc' = "done"
    /\ consts' = Globals(fn, args, out', consts)
    /\ log' = Append(log, [fn |-> fn, args |-> args, out |-> out'])
    /\ UNCHANGED <<fn, args, heap, python, threads>>

CallPr ==
    /\ pc = "call"
    /\ fn = "Pr"
    /\ out' = Call("Pr", args)
    /\ pc' = "done"
    /\ consts' = Globals(fn, args, out', consts)
    /\ log' = Append(log, [fn |-> fn, args |-> args, out |-> out'])
    /\ UNCHANGED <<fn, args, heap, python, threads>>

Callc_ideal_gas ==
    /\ pc = "call"
    /\ fn = "c_ideal_gas"
    /\ out' = Call("c_ideal_gas", args)
    /\ pc' = "done"
    /\ consts' = Globals(fn, args, out', consts)
    /\ log' = Append(log, [fn |-> fn, args |-> args, out |-> out'])
    /\ UNCHANGED <<fn, args, heap, python, threads>>

CallConfinement ==
    /\ pc = "call"
    /\ fn = "Confinement"
    /\ out' = Call("Confinement", args)
    /\ pc' = "done"
    /\ consts' = Globals(fn, args, out', consts)
    /\ log' = Append(log, [fn |-> fn, args |-> args, out |-> out'])
    /\ UNCHANGED <<fn, args, heap, python, threads>>

CallMorton ==
    /\ pc = "call"
    /\ fn = "Morton"
    /\ out' = Call("Morton", args)
    /\ pc' = "done"
    /\ consts' = Globals(fn, args, out', consts)
    /\ log' = Append(log, [fn |-> fn, args |-> args, out |-> out'])
    /\ UNCHANGED <<fn, args, heap, python, threads>>

CallBond ==
    /\ pc = "call"
    /\ fn = "Bond"
    /\ out' = Call("Bond", args)
    /\ pc' = "done"
    /\ consts' = Globals(fn, args, out', consts)
    /\ log' = Append(log, [fn |-> fn, args |-> args, out |-> out'])
    /\ UNCHANGED <<fn, args, heap, python, threads>>

CallEotvos ==
    /\ pc = "call"
    /\ fn = "Eotvos"
    /\ out' = Call("Eotvos", args)
    /\ pc' = "done"
    /\ consts' = Globals(fn, args, out', consts)
    /\ log' = Append(log, [fn |-> fn, args |-> args, out |-> out'])
    /\ UNCHANGED <<fn, args, heap, python, threads>>

CallFroude ==
    /\ pc = "call"
    /\ fn = "Froude"
    /\ out' = Call("Froude", args)
    /\ pc' = "done"
    /\ consts' = Globals(fn, args, out', consts)
    /\ log' = Append(log, [fn |-> fn, args |-> args, out |-> out'])
    /\ UNCHANGED <<fn, args, heap, python, threads>>

CallFroude_densimetric ==
    /\ pc = "call"
    /\ fn = "Froude_densimetric"
    /\ out' = Call("Froude_densimetric", args)
    /\ pc' = "done"
    /\ consts' = Globals(fn, args, out', consts)
    /\ log' = Append(log, [fn |-> fn, args |-> args, out |-> out'])
    /\ UNCHANGED <<fn, args, heap, python, threads>>

CallArchimedes ==
    /\ pc = "call"
    /\ fn = "Archimedes"
    /\ out' = Call("Archimedes", args)
    /\ pc' = "done"
    /\ consts' = Globals(fn, args, out', consts)
    /\ log' = Append(log, [fn |-> fn, args |-> args, out |-> out'])
    /\ UNCHANGED <<fn, args, heap, python, threads>>

Callnu_mu_converter ==
    /\ pc = "call"
    /\ fn = "nu_mu_converter"
    /\ out' = Call("nu_mu_converter", args)
    /\ pc' = "done"
    /\ consts' = Globals(fn, args, out', consts)
    /\ log' = Append(log, [fn |-> fn, args |-> args, out |-> out'])
    /\ UNCHANGED <<fn, args, heap, python, threads>>

Callgravity ==
    /\ pc = "call"
    /\ fn = "gravity"
    /\ out' = Call("gravity", args)
    /\ pc' = "done"
    /\ consts' = Globals(fn, args, out', consts)
    /\ log' = Append(log, [fn |-> fn, args |-> args, out |-> out'])
    /\ UNCHANGED <<fn, args, heap, python, threads>>

CalldP_from_K ==
    /\ pc = "call"
    /\ fn = "dP_from_K"
    /\ out' = Call("dP_from_K", args)
    /\ pc' = "done"
    /\ consts' = Globals(fn, args, out', consts)
    /\ log' = Append(log, [fn |-> fn, args |-> args, out |-> out'])
    /\ UNCHANGED <<fn, args, heap, python, threads>>

Callhead_from_K ==
    /\ pc = "call"
    /\ fn = "head_from_K"
    /\ out' = Call("head_from_K", args)
    /\ pc' = "done"
    /\ consts' = Globals(fn, args, out', consts)
    /\ log' = Append(log, [fn |-> fn, args |-> args, out |-> out'])
    /\ UNCHANGED <<fn, args, heap, python, threads>>

Callhead_from_P ==
    /\ pc = "call"
    /\ fn = "head_from_P"
    /\ out' = Call("head_from_P", args)
    /\ pc' = "done"
    /\ consts' = Globals(fn, args, out', consts)
    /\ log' = Append(log, [fn |-> fn, args |-> args, out |-> out'])
    /\ UNCHANGED <<fn, args, heap, python, threads>>

CallP_from_head ==
    /\ pc = "call"
    /\ fn = "P_from_head"
    /\ out' = Call("P_from_head", args)
    /\ pc' = "done"
    /\ consts' = Globals(fn, args, out', consts)
    /\ log' = Append(log, [fn |-> fn, args |-> args, out |-> out'])
    /\ UNCHANGED <<fn, args, heap, python, threads>>

CallK_from_f ==
    /\ pc = "call"
    /\ fn = "K_from_f"
    /\ out' = Call("K_from_f", args)
    /\ pc' = "done"
    /\ consts' = Globals(fn, args, out', consts)
    /\ log' = Append(log, [fn |-> fn, args |-> args, out |-> out'])
    /\ UNCHANGED <<fn, args, heap, python, threads>>

CallK_from_L_equiv ==
    /\ pc = "call"
    /\ fn = "K_from_L_equiv"
    /\ out' = Call("K_from_L_equiv", args)
    /\ pc' = "done"
    /\ consts' = Globals(fn, args, out', consts)
    /\ log' = Append(log, [fn |-> fn, args |-> args, out |-> out'])
    /\ UNCHANGED <<fn, args, heap, python, threads>>

CallL_equiv_from_K ==
    /\ pc = "call"
    /\ fn = "L_equiv_from_K"
    /\ out' = Call("L_equiv_from_K", args)
    /\ pc' = "done"
    /\ consts' = Globals(fn, args, out', consts)
    /\ log' = Append(log, [fn |-> fn, args |-> args, out |-> out'])
    /\ UNCHANGED <<fn, args, heap, python, threads>>

CallL_from_K ==
    /\ pc = "call"
    /\ fn = "L_from_K"
    /\ out' = Call("L_from_K", args)
    /\ pc' = "done"
    /\ consts' = Globals(fn, args, out', consts)
    /\ log' = Append(log, [fn |-> fn, args |-> args, out |-> out'])
    /\ UNCHANGED <<fn, args, heap, python, threads>>

NextSingle ==
    \/ Callthermal_diffusivity
    \/ Callalpha
    \/ CallPr
    \/ Callc_ideal_gas
    \/ CallConfinement
    \/ CallMorton
    \/ CallBond
    \/ CallEotvos
    \/ CallFroude
    \/ CallFroude_densimetric
    \/ CallArchimedes
    \/ Callnu_mu_converter
    \/ Callgravity
    \/ CalldP_from_K
    \/ Callhead_from_K
    \/ Callhead_from_P
    \/ CallP_from_head
    \/ CallK_from_f
    \/ CallK_from_L_equiv
    \/ CallL_equiv_from_K
    \/ CallL_from_K

SpecSingle == InitSingle /\ [][NextSingle]_vars

----------------------------------------------------------------------------
(* The temperature conversions *)

\* the literal 1.8
OnePointEight == <<9, 5>>

\* An object of the heap: a Python float (ndim 0, one number), a list of
\* floats, or a numpy array; data holds its numbers in order.
Float(v) == [type |-> "float", ndim |-> 0, data |-> <<v>>]

\* the numbers held by the object r of the heap h
Elements(h, r) == {h[r].data[i] : i \in 1 .. Len(h[r].data)}

\* the elements of xs with the function F applied to each, in order
RECURSIVE Map(_, _)
Map(F, xs) == IF xs = <<>> THEN <<>> ELSE <<F[Head(xs)]>> \o Map(F, Tail(xs))

\* `K = np.asanyarray(C); K += ...; return K`: an array passed in is changed in
\* place and returned
Elementwise_in_place(h, r, F) ==
    IF h[r].type = "ndarray"
    THEN [heap |-> [h EXCEPT ![r].data = Map(F, h[r].data)], ref |-> r]
    ELSE [heap |-> Append(h, [type |-> IF h[r].ndim = 0 THEN "float64" ELSE "ndarray",
                              ndim |-> h[r].ndim,
                              data |-> Map(F, h[r].data)]),
          ref |-> Len(h) + 1]

\* An arithmetic expression over np.asanyarray(h[r]) and floats whose value
\* for the number v is F[v]: numpy evaluates it for each element and returns a
\* new object (a numpy scalar for a 0-d input), the temporaries being dropped.
Elementwise(h, r, F) ==
    [heap |-> Append(h, [type |-> IF h[r].ndim = 0 THEN "float64" ELSE "ndarray",
                         ndim |-> h[r].ndim,
                         data |-> Map(F, h[r].data)]),
     ref |-> Len(h) + 1]

\* R2F adding the offsets with the wrong sign: Ra + 1.8*zero_Celsius - 32.0
R2F_wrong_sign(h, Ra) ==
    Elementwise(h, Ra,
        [v \in Elements(h, Ra) |->
            Sub(Add(v, Mul(OnePointEight, consts.zero_Celsius)), Num(32))])

C2K(h, C) ==
    Elementwise(h, C, [v \in Elements(h, C) |->
        Add(v, consts.zero_Celsius)])

K2C(h, K) ==
    Elementwise(h, K, [v \in Elements(h, K) |->
        Sub(v, consts.zero_Celsius)])

F2C(h, F) ==
    Elementwise(h, F, [v \in Elements(h, F) |->
        Div(Sub(v, Num(32)), OnePointEight)])

C2F(h, C) ==
    Elementwise(h, C, [v \in Elements(h, C) |->
        Add(Mul(OnePointEight, v), Num(32))])

\* F2K dividing the sum by 1.8: (F - 32 + zero_Celsius)/1.8
F2K_divides_offset(h, F) ==
    Elementwise(h, F, [v \in Elements(h, F) |->
        Div(Add(Sub(v, Num(32)), consts.zero_Celsius), OnePointEight)])

F2K(h, F) ==
    Elementwise(h, F, [v \in Elements(h, F) |->
        Add(Div(Sub(v, Num(32)), OnePointEight), consts.zero_Celsius)])

K2F(h, K) ==
    Elementwise(h, K, [v \in Elements(h, K) |->
        Add(Mul(OnePointEight, Sub(v, consts.zero_Celsius)), Num(32))])

C2R(h, C) ==
    Elementwise(h, C, [v \in Elements(h, C) |->
        Mul(OnePointEight, Add(v, consts.zero_Celsius))])

K2R(h, K) ==
    Elementwise(h, K, [v \in Elements(h, K) |->
        Mul(OnePointEight, v)])

F2R(h, F) ==
    Elementwise(h, F, [v \in Elements(h, F) |->
        Add(Sub(v, Num(32)), Mul(OnePointEight, consts.zero_Celsius))])

R2C(h, Ra) ==
    Elementwise(h, Ra, [v \in Elements(h, Ra) |->
        Sub(Div(v, OnePointEight), consts.zero_Celsius)])

R2K(h, Ra) ==
    Elementwise(h, Ra, [v \in Elements(h, Ra) |->
        Div(v, OnePointEight)])

R2F(h, Ra) ==
    Elementwise(h, Ra, [v \in Elements(h, Ra) |->
        Add(Sub(v, Mul(OnePointEight, consts.zero_Celsius)), Num(32))])

TempFns ==
    {"C2K", "K2C", "F2C", "C2F", "F2K", "K2F", "C2R", "K2R", "F2R", "R2C", "R2K", "R2F"}

\* the call f(x) of a conversion on the object x of the heap h
Convert(f, h, x) ==
    CASE f = "C2K" -> C2K(h, x)
      [] f = "K2C" -> K2C(h, x)
      [] f = "F2C" -> F2C(h, x)
      [] f = "C2F" -> C2F(h, x)
      [] f = "F2K" -> F2K(h, x)
      [] f = "K2F" -> K2F(h, x)
      [] f = "C2R" -> C2R(h, x)
      [] f = "K2R" -> K2R(h, x)
      [] f = "F2R" -> F2R(h, x)
      [] f = "R2C" -> R2C(h, x)
      [] f = "R2K" -> R2K(h, x)
      [] f = "R2F" -> R2F(h, x)

\* the outcome of returning the object r of the heap
Returned(r) ==
    [kind |-> "return", val |-> None, exc |-> "", msg |-> <<>>, routes |-> {}, ref |-> r]

----------------------------------------------------------------------------
(* The inputs of the conversions *)

\* scalar temperatures range over -MaxTemp .. MaxTemp and some named points
MaxTemp == 2

\* collections hold up to MaxLen temperatures
MaxLen == 2

\* -40 (where Celsius and Fahrenheit meet), 233.15, absolute zero in Celsius,
\* and two numbers that are not integers
NamedTemps == {Num(-40), <<4663, 20>>, <<-5463, 20>>, <<1, 2>>, <<-7, 3>>}

TempVals == {Num(n) : n \in (-MaxTemp) .. MaxTemp} \cup NamedTemps

ElementVals == {Num(-40), Num(0), <<1, 2>>}

RECURSIVE SeqsUpTo(_, _)
SeqsUpTo(n, S) ==
    IF n = 0 THEN {<<>>}
    ELSE SeqsUpTo(n - 1, S) \cup {Append(xs, v) : xs \in SeqsUpTo(n - 1, S), v \in S}

TempInputs ==
    {Float(v) : v \in TempVals} \cup
    {[type |-> t, ndim |-> 1, data |-> xs] :
        t \in {"list", "ndarray"}, xs \in SeqsUpTo(MaxLen, ElementVals)}

----------------------------------------------------------------------------
(* The state machine of the conversions: the caller converts an object, then
   passes the result to the conversion in the opposite direction *)

InitTemp ==
    /\ fn \in TempFns
    /\ \E o \in TempInputs : heap = <<o>>
    /\ args = [x |-> 1]
    /\ out = NoOutcome
    /\ pc = "call"
    /\ consts = ModuleConsts
    /\ python \in PythonVersions
    /\ log = <<>>
    /\ threads = <<>>

CallC2K ==
    /\ \/ pc = "call" /\ fn = "C2K" /\ args' = args /\ pc' = "done"
       \/ pc = "done" /\ fn = "K2C" /\ args' = [x |-> out.ref] /\ pc' = "back"
    /\ fn' = "C2K"
    /\ heap' = C2K(heap, args'.x).heap
    /\ out' = Returned(C2K(heap, args'.x).ref)
    /\ consts' = Globals(fn', args', out', consts)
    /\ log' = Append(log, [fn |-> fn', args |-> args', out |-> out'])
    /\ UNCHANGED <<python, threads>>

CallK2C ==
    /\ \/ pc = "call" /\ fn = "K2C" /\ args' = args /\ pc' = "done"
       \/ pc = "done" /\ fn = "C2K" /\ args' = [x |-> out.ref] /\ pc' = "back"
    /\ fn' = "K2C"
    /\ heap' = K2C(heap, args'.x).heap
    /\ out' = Returned(K2C(heap, args'.x).ref)
    /\ consts' = Globals(fn', args', out', consts)
    /\ log' = Append(log, [fn |-> fn', args |-> args', out |-> out'])
    /\ UNCHANGED <<python, threads>>

CallF2C ==
    /\ \/ pc = "call" /\ fn = "F2C" /\ args' = args /\ pc' = "done"
       \/ pc = "done" /\ fn = "C2F" /\ args' = [x |-> out.ref] /\ pc' = "back"
    /\ fn' = "F2C"
    /\ heap' = F2C(heap, args'.x).heap
    /\ out' = Returned(F2C(heap, args'.x).ref)
    /\ consts' = Globals(fn', args', out', consts)
    /\ log' = Append(log, [fn |-> fn', args |-> args', out |-> out'])
    /\ UNCHANGED <<python, threads>>

CallC2F ==
    /\ \/ pc = "call" /\ fn = "C2F" /\ args' = args /\ pc' = "done"
       \/ pc = "done" /\ fn = "F2C" /\ args' = [x |-> out.ref] /\ pc' = "back"
    /\ fn' = "C2F"
    /\ heap' = C2F(heap, args'.x).heap
    /\ out' = Returned(C2F(heap, args'.x).ref)
    /\ consts' = Globals(fn', args', out', consts)
    /\ log' = Append(log, [fn |-> fn', args |-> args', out |-> out'])
    /\ UNCHANGED <<python, threads>>

CallF2K ==
    /\ \/ pc = "call" /\ fn = "F2K" /\ args' = args /\ pc' = "done"
       \/ pc = "done" /\ fn = "K2F" /\ args' = [x |-> out.ref] /\ pc' = "back"
    /\ fn' = "F2K"
    /\ heap' = F2K(heap, args'.x).heap
    /\ out' = Returned(F2K(heap, args'.x).ref)
    /\ consts' = Globals(fn', args', out', consts)
    /\ log' = Append(log, [fn |-> fn', args |-> args', out |-> out'])
    /\ UNCHANGED <<python, threads>>

CallK2F ==
    /\ \/ pc = "call" /\ fn = "K2F" /\ args' = args /\ pc' = "done"
       \/ pc = "done" /\ fn = "F2K" /\ args' = [x |-> out.ref] /\ pc' = "back"
    /\ fn' = "K2F"
    /\ heap' = K2F(heap, args'.x).heap
    /\ out' = Returned(K2F(heap, args'.x).ref)
    /\ consts' = Globals(fn', args', out', consts)
    /\ log' = Append(log, [fn |-> fn', args |-> args', out |-> out'])
    /\ UNCHANGED <<python, threads>>

CallC2R ==
    /\ \/ pc = "call" /\ fn = "C2R" /\ args' = args /\ pc' = "done"
       \/ pc = "done" /\ fn = "R2C" /\ args' = [x |-> out.ref] /\ pc' = "back"
    /\ fn' = "C2R"
    /\ heap' = C2R(heap, args'.x).heap
    /\ out' = Returned(C2R(heap, args'.x).ref)
    /\ consts' = Globals(fn', args', out', consts)
    /\ log' = Append(log, [fn |-> fn', args |-> args', out |-> out'])
    /\ UNCHANGED <<python, threads>>

CallK2R ==
    /\ \/ pc = "call" /\ fn = "K2R" /\ args' = args /\ pc' = "done"
       \/ pc = "done" /\ fn = "R2K" /\ args' = [x |-> out.ref] /\ pc' = "back"
    /\ fn' = "K2R"
    /\ heap' = K2R(heap, args'.x).heap
    /\ out' = Returned(K2R(heap, args'.x).ref)
    /\ consts' = Globals(fn', args', out', consts)
    /\ log' = Append(log, [fn |-> fn', args |-> args', out |-> out'])
    /\ UNCHANGED <<python, threads>>

CallF2R ==
    /\ \/ pc = "call" /\ fn = "F2R" /\ args' = args /\ pc' = "done"
       \/ pc = "done" /\ fn = "R2F" /\ args' = [x |-> out.ref] /\ pc' = "back"
    /\ fn' = "F2R"
    /\ heap' = F2R(heap, args'.x).heap
    /\ out' = Returned(F2R(heap, args'.x).ref)
    /\ consts' = Globals(fn', args', out', consts)
    /\ log' = Append(log, [fn |-> fn', args |-> args', out |-> out'])
    /\ UNCHANGED <<python, threads>>

CallR2C ==
    /\ \/ pc = "call" /\ fn = "R2C" /\ args' = args /\ pc' = "done"
       \/ pc = "done" /\ fn = "C2R" /\ args' = [x |-> out.ref] /\ pc' = "back"
    /\ fn' = "R2C"
    /\ heap' = R2C(heap, args'.x).heap
    /\ out' = Returned(R2C(heap, args'.x).ref)
    /\ consts' = Globals(fn', args', out', consts)
    /\ log' = Append(log, [fn |-> fn', args |-> args', out |-> out'])
    /\ UNCHANGED <<python, threads>>

CallR2K ==
    /\ \/ pc = "call" /\ fn = "R2K" /\ args' = args /\ pc' = "done"
       \/ pc = "done" /\ fn = "K2R" /\ args' = [x |-> out.ref] /\ pc' = "back"
    /\ fn' = "R2K"
    /\ heap' = R2K(heap, args'.x).heap
    /\ out' = Returned(R2K(heap, args'.x).ref)
    /\ consts' = Globals(fn', args', out', consts)
    /\ log' = Append(log, [fn |-> fn', args |-> args', out |-> out'])
    /\ UNCHANGED <<python, threads>>

CallR2F ==
    /\ \/ pc = "call" /\ fn = "R2F" /\ args' = args /\ pc' = "done"
       \/ pc = "done" /\ fn = "F2R" /\ args' = [x |-> out.ref] /\ pc' = "back"
    /\ fn' = "R2F"
    /\ heap' = R2F(heap, args'.x).heap
    /\ out' = Returned(R2F(heap, args'.x).ref)
    /\ consts' = Globals(fn', args', out', consts)
    /\ log' = Append(log, [fn |-> fn', args |-> args', out |-> out'])
    /\ UNCHANGED <<python, threads>>

NextTemp ==
    \/ CallC2K
    \/ CallK2C
    \/ CallF2C
    \/ CallC2F
    \/ CallF2K
    \/ CallK2F
    \/ CallC2R
    \/ CallK2R
    \/ CallF2R
    \/ CallR2C
    \/ CallR2K
    \/ CallR2F

SpecTemp == InitTemp /\ [][NextTemp]_vars

\* the number a conversion returns for the number v
ScalarConv(f, v) ==
    LET r == Convert(f, <<Float(v)>>, 1) IN r.heap[r.ref].data[1]

----------------------------------------------------------------------------
(* A caller that makes several calls one after the other *)

\* the caller makes at most MaxCalls calls
MaxCalls == 3

SessionFns == {"Reynolds", "gravity", "head_from_K", "Froude", "Bond", "C2K", "K2C"}

\* Reynolds without a viscosity fails; the conversions take the object heap[1]
SessionArgs(f) ==
    CASE f = "Reynolds" ->
            [V : {Num(2)}, D : {Num(2)}, rho : {None}, mu : {None}, nu : {None, Num(2)}]
      [] f = "gravity" -> [latitude : {Num(0)}, H : {Num(0), Num(1000)}]
      [] f = "head_from_K" -> [K : {Num(2)}, V : {Num(2)}, g : Override]
      [] f = "Froude" -> [V : {Num(2)}, L : {Num(2)}, g : Override, squared : {Omitted}]
      [] f = "Bond" ->
            [rhol : {Num(2)}, rhog : {Num(1)}, sigma : {Num(2)}, L : {Num(2)}, g : {Omitted}]
      [] f \in TempFns -> [x : {1}]

InitSession ==
    /\ fn \in SessionFns
    /\ args \in SessionArgs(fn)
    /\ out = NoOutcome
    /\ pc = "call"
    /\ heap = <<Float(Num(0))>>
    /\ consts = ModuleConsts
    /\ python \in PythonVersions
    /\ log = <<>>
    /\ threads = <<>>

\* the caller goes on to another call
Again ==
    /\ pc \in {"done", "back"}
    /\ Len(log) < MaxCalls
    /\ \E f \in SessionFns : \E a \in SessionArgs(f) : fn' = f /\ args' = a
    /\ out' = NoOutcome
    /\ pc' = "call"
    /\ UNCHANGED <<heap, consts, python, log, threads>>

NextSession ==
    \/ Again
    \/ CallReynolds
    \/ Callgravity
    \/ Callhead_from_K
    \/ CallFroude
    \/ CallBond
    \/ CallC2K
    \/ CallK2C

SpecSession == InitSession /\ [][NextSession]_vars

----------------------------------------------------------------------------
(* Threads that call concurrently.  A call takes two steps: the parameters  *)
(* are bound, the defaults filling in for the arguments left out, and then  *)
(* the body runs; the body of every function reads at most one module-level *)
(* name, so its reads of shared state happen at one instant.                *)

Threads == {1, 2}

ThreadFns == {"Froude", "gravity", "Bond", "head_from_K", "Grashof", "C2K"}

\* the conversions take a float; Grashof is called with nu alone, T2, rho and
\* mu left to their defaults
ThreadArgs(f) ==
    CASE f = "Froude" -> [V : {Num(2)}, L : {Num(2)}, g : Override, squared : {Omitted, True}]
      [] f = "gravity" -> [latitude : {Num(0)}, H : {Num(0), Num(1000)}]
      [] f = "Bond" ->
            [rhol : {Num(2)}, rhog : {Num(1)}, sigma : {Num(2)}, L : {Num(2)}, g : Override]
      [] f = "head_from_K" -> [K : {Num(2)}, V : {Num(2)}, g : Override]
      [] f = "Grashof" ->
            [L : {Num(2)}, beta : {Num(2)}, T1 : {Num(2)}, T2 : {Omitted}, rho : {Omitted},
             mu : {Omitted}, nu : {Num(2)}, g : Override]
      [] f = "C2K" -> [x : {Num(0), Num(-40)}]

\* the name of the parameter of the conversion f
Parameter(f) ==
    CASE f \in {"C2K", "C2F", "C2R"} -> "C"
      [] f \in {"K2C", "K2F", "K2R"} -> "K"
      [] f \in {"F2C", "F2K", "F2R"} -> "F"
      [] f \in {"R2C", "R2K", "R2F"} -> "Ra"

\* the defaults in the signature of f
Defaults(f) ==
    CASE f = "Froude" -> [g |-> consts.default_g, squared |-> False]
      [] f = "Froude_densimetric" -> [heavy |-> True, g |-> consts.default_g]
      [] f = "Grashof" ->
            [T2 |-> Num(0), rho |-> None, mu |-> None, nu |-> None, g |-> consts.default_g]
      [] f \in {"Confinement", "Morton", "Archimedes", "head_from_K", "head_from_P",
                "P_from_head"} -> [g |-> consts.default_g]
      [] f \in {"K_from_L_equiv", "L_equiv_from_K", "L_from_K"} -> [fd |-> default_fd]
      [] f = "Reynolds" -> [rho |-> None, mu |-> None, nu |-> None]
      [] f \in {"Peclet_heat", "Fourier_heat", "Graetz_heat"} ->
            [rho |-> None, Cp |-> None, k |-> None, alpha |-> None]
      [] f = "Schmidt" -> [mu |-> None, nu |-> None, rho |-> None]
      [] f = "Lewis" ->
            [D |-> None, alpha |-> None, Cp |-> None, k |-> None, rho |-> None]
      [] f \in {"Prandtl", "Pr"} ->
            [Cp |-> None, k |-> None, mu |-> None, nu |-> None, rho |-> None,
             alpha |-> None]
      [] f = "nu_mu_converter" -> [mu |-> None, nu |-> None]
      [] OTHER -> <<>>

\* the names of the parameters in the signature of f
Signature(f) ==
    CASE f = "Reynolds" -> {"V", "D", "rho", "mu", "nu"}
      [] f = "Peclet_heat" -> {"V", "L", "rho", "Cp", "k", "alpha"}
      [] f = "Fourier_heat" -> {"t", "L", "rho", "Cp", "k", "alpha"}
      [] f = "Graetz_heat" -> {"V", "D", "x", "rho", "Cp", "k", "alpha"}
      [] f = "Schmidt" -> {"D", "mu", "nu", "rho"}
      [] f = "Lewis" -> {"D", "alpha", "Cp", "k", "rho"}
      [] f \in {"Prandtl", "Pr"} -> {"Cp", "k", "mu", "nu", "rho", "alpha"}
      [] f = "Grashof" -> {"L", "beta", "T1", "T2", "rho", "mu", "nu", "g"}
      [] f \in {"thermal_diffusivity", "alpha"} -> {"k", "rho", "Cp"}
      [] f = "c_ideal_gas" -> {"T", "k", "MW"}
      [] f = "Confinement" -> {"D", "rhol", "rhog", "sigma", "g"}
      [] f = "Morton" -> {"rhol", "rhog", "mul", "sigma", "g"}
      [] f \in {"Bond", "Eotvos"} -> {"rhol", "rhog", "sigma", "L"}
      [] f = "Froude" -> {"V", "L", "g", "squared"}
      [] f = "Froude_densimetric" -> {"V", "L", "rho1", "rho2", "heavy", "g"}
      [] f = "Archimedes" -> {"L", "rhof", "rhop", "mu", "g"}
      [] f = "nu_mu_converter" -> {"rho", "mu", "nu"}
      [] f = "gravity" -> {"latitude", "H"}
      [] f = "dP_from_K" -> {"K", "rho", "V"}
      [] f = "head_from_K" -> {"K", "V", "g"}
      [] f = "head_from_P" -> {"P", "rho", "g"}
      [] f = "P_from_head" -> {"head", "rho", "g"}
      [] f = "K_from_f" -> {"fd", "L", "D"}
      [] f = "K_from_L_equiv" -> {"L_D", "fd"}
      [] f = "L_equiv_from_K" -> {"K", "fd"}
      [] f = "L_from_K" -> {"K", "D", "fd"}
      [] f \in TempFns -> {Parameter(f)}

\* the keyword p is passed in the call f(**a)
Passed(a, p) == p \in DOMAIN a /\ a[p] # Omitted

\* the arguments of the call f(**a) fit the signature: every keyword names a
\* parameter, and every parameter without a default is passed.  The one
\* argument x of a conversion is passed by position.
Binds(f, a) ==
    \/ f \in TempFns
    \/ /\ \A p \in DOMAIN a : Passed(a, p) => p \in Signature(f)
       /\ \A p \in Signature(f) \ DOMAIN Defaults(f) : Passed(a, p)

\* the parameters of the call f(**a) once bound.  When the arguments do not
\* fit the signature the call raises TypeError and no frame comes to be;
\* otherwise the frame holds every parameter of the signature, with the
\* argument passed or else the default.
Bound(f, a) ==
    IF ~Binds(f, a) THEN TypeError
    ELSE IF f \in TempFns THEN Parameter(f) :> a.x
    ELSE [p \in Signature(f) |-> IF Passed(a, p) THEN a[p] ELSE Defaults(f)[p]]

\* the frame b as keyword arguments, g and R marked as left out when the
\* frame does not hold them
Keywords(b) ==
    [p \in DOMAIN b \cup {"g", "R"} |-> IF p \in DOMAIN b THEN b[p] ELSE Omitted]

\* the body of f run on the bound parameters b
Body(f, b) ==
    IF f \in TempFns THEN Return(ScalarConv(f, b[Parameter(f)]), {})
    ELSE Call(f, Keywords(b))

\* the local variables of the frame when the body of f, entered with the
\* parameters b, has ended with the outcome o: the parameters and the names
\* the body has assigned by then
Locals(f, b, o) ==
    CASE f = "gravity" ->
            b @@ [lat |-> Radians(Div(b.latitude, Num(180))), g |-> o.val]
      [] f = "Froude" ->
            IF o.kind = "return" THEN b @@ [Fr |-> o.val] ELSE b
      [] f = "Froude_densimetric" ->
            b @@ [rho3 |-> IF Truthy(b.heavy) THEN b.rho1 ELSE b.rho2]
      [] f = "c_ideal_gas" ->
            IF IsErr(Div(Mul(consts.R, Thousand), b.MW)) THEN b
            ELSE b @@ [Rspecific |-> Div(Mul(consts.R, Thousand), b.MW)]
      [] f = "Morton" -> b @@ [mul2 |-> Mul(b.mul, b.mul)]
      [] f \in {"Reynolds", "Grashof"} ->
            IF Truthy(b.rho) /\ Truthy(b.mu) THEN [b EXCEPT !.nu = Div(b.mu, b.rho)]
            ELSE b
      [] f \in {"Peclet_heat", "Fourier_heat", "Graetz_heat", "Lewis"} ->
            IF Truthy(b.rho) /\ Truthy(b.Cp) /\ Truthy(b.k)
            THEN [b EXCEPT !.alpha = Div(b.k, Mul(b.rho, b.Cp))]
            ELSE b
      [] OTHER -> b

\* a thread about to call f(**a)
Start(f, a) == [fn |-> f, args |-> a, pc |-> "call", frame |-> <<>>, out |-> NoOutcome]

InitThreads ==
    /\ fn = ""
    /\ args = <<>>
    /\ out = NoOutcome
    /\ pc = "threads"
    /\ heap = <<>>
    /\ consts = ModuleConsts
    /\ python \in PythonVersions
    /\ log = <<>>
    /\ \E f1 \in ThreadFns, f2 \in ThreadFns :
          \E a1 \in ThreadArgs(f1), a2 \in ThreadArgs(f2) :
             threads = <<Start(f1, a1), Start(f2, a2)>>

\* the call binds its parameters; when that raises, the call is over before
\* a frame exists and the body never starts
BindParameters(t) ==
    /\ threads[t].pc = "call"
    /\ LET b == Bound(threads[t].fn, threads[t].args)
       IN  IF ~Binds(threads[t].fn, threads[t].args)
           THEN threads' = [threads EXCEPT ![t].pc = "done", ![t].out = Return(b, {})]
           ELSE threads' = [threads EXCEPT ![t].pc = "body", ![t].frame = b]
    /\ UNCHANGED <<fn, args, out, pc, heap, consts, python, log>>

RunBody(t) ==
    /\ threads[t].pc = "body"
    /\ LET o == Body(threads[t].fn, threads[t].frame)
       IN  /\ threads' = [threads EXCEPT ![t].pc = "done", ![t].out = o,
                                         ![t].frame = Locals(threads[t].fn, @, o)]
           /\ consts' = Globals(threads[t].fn, threads[t].args, o, consts)
    /\ UNCHANGED <<fn, args, out, pc, heap, python, log>>

NextThreads == \E t \in Threads : BindParameters(t) \/ RunBody(t)

SpecThreads == InitThreads /\ [][NextThreads]_vars

----------------------------------------------------------------------------
(* Engauge_2d_parser.  A line is the sequence of its characters; the caller's
   thread runs the call, its frame holding the locals of the function, and
   every iteration of the loop is a step.  The lists are held by value:
   working_xs and working_ys are rebound to new lists right after they are
   appended to x_lists and y_lists, so no stored list is changed later. *)

\* the input holds at most MaxLines lines
MaxLines == 5

IndexError == <<"IndexError">>

\* Text is a tuple of characters: the printable characters of ASCII and the
\* six of string.whitespace.  VerticalTab stands for the one character "\v"
\* of Python, which a TLA+ string cannot hold.
VerticalTab == "\\v"

\* the characters str.strip() removes and float() skips: string.whitespace
Whitespace == {" ", "\t", "\n", "\r", "\f", VerticalTab}

Digits == <<"0", "1", "2", "3", "4", "5", "6", "7", "8", "9">>

IsDigit(c) == \E d \in 1 .. 10 : Digits[d] = c

\* s.strip()
strip(s) ==
    LET I == {i \in 1 .. Len(s) : s[i] \notin Whitespace}
    IN  IF I = {} THEN <<>>
        ELSE SubSeq(s, CHOOSE i \in I : \A j \in I : i <= j,
                       CHOOSE i \in I : \A j \in I : j <= i)

\* the positions of the commas of s
Commas(s) == {i \in 1 .. Len(s) : s[i] = ","}

\* the position of the k-th comma of s; 0 and Len(s) + 1 bound the fields
Comma(s, k) ==
    IF k = 0 THEN 0
    ELSE IF k > Cardinality(Commas(s)) THEN Len(s) + 1
    ELSE CHOOSE i \in Commas(s) : Cardinality({j \in Commas(s) : j < i}) = k - 1

\* s.split(',')
split(s) ==
    [k \in 1 .. Cardinality(Commas(s)) + 1 |->
        SubSeq(s, Comma(s, k - 1) + 1, Comma(s, k) - 1)]

\* the number written by the decimal digits t
RECURSIVE Decimal(_)
Decimal(t) ==
    IF t = <<>> THEN 0
    ELSE 10 * Decimal(SubSeq(t, 1, Len(t) - 1))
         + (CHOOSE d \in 0 .. 9 : Digits[d + 1] = t[Len(t)])

RECURSIVE Pow10(_)
Pow10(n) == IF n = 0 THEN 1 ELSE 10 * Pow10(n - 1)

\* the floats that are not numbers
Infinity == <<"inf">>
NegInfinity == <<"-inf">>
NaN == <<"nan">>

\* c.lower() for the letters of inf, infinity, nan and the exponent mark
Lower(c) ==
    CASE c = "A" -> "a" [] c = "E" -> "e" [] c = "F" -> "f" [] c = "I" -> "i"
      [] c = "N" -> "n" [] c = "T" -> "t" [] c = "Y" -> "y" [] OTHER -> c

NotUnderscore(c) == c # "_"

\* every underscore of w stands between two digits
Grouped(w) ==
    \A i \in 1 .. Len(w) :
        w[i] = "_" => i > 1 /\ i < Len(w) /\ IsDigit(w[i - 1]) /\ IsDigit(w[i + 1])

\* the parts of the decimal literal v: the digits before and after the point,
\* the sign and the digits of the exponent, and whether v is well formed (at
\* most one point, a digit in the mantissa, and digits after an exponent mark)
Literal(v) ==
    LET Es == {i \in 1 .. Len(v) : v[i] = "e"}
        e == IF Es = {} THEN Len(v) + 1 ELSE CHOOSE i \in Es : \A j \in Es : i <= j
        mant == SubSeq(v, 1, e - 1)
        expo == SubSeq(v, e + 1, Len(v))
        esigned == expo # <<>> /\ expo[1] \in {"+", "-"}
        edigits == IF esigned THEN Tail(expo) ELSE expo
        Ps == {i \in 1 .. Len(mant) : mant[i] = "."}
        p == IF Ps = {} THEN Len(mant) + 1 ELSE CHOOSE i \in Ps : \A j \in Ps : i <= j
        whole == SubSeq(mant, 1, p - 1)
        frac == SubSeq(mant, p + 1, Len(mant))
        AllDigits(t) == \A i \in 1 .. Len(t) : IsDigit(t[i])
    IN  [digits |-> whole \o frac,
         scale |-> Len(frac),
         eneg |-> esigned /\ expo[1] = "-",
         edigits |-> edigits,
         ok |-> /\ AllDigits(whole) /\ AllDigits(frac) /\ whole \o frac # <<>>
                /\ Es = {} \/ (edigits # <<>> /\ AllDigits(edigits))]

\* float(s): surrounding whitespace is skipped; then a sign may come; then
\* inf, infinity or nan in either case, or a decimal literal with an optional
\* point and an optional exponent; anything else raises ValueError.  The
\* number is the exact decimal value written (the code rounds it to the
\* nearest double) and must fit the integers of TLC.  Underscores between
\* digits are accepted from Python 3.6 on and raise ValueError before.
float(s) ==
    LET t == strip(s)
        signed == t # <<>> /\ t[1] \in {"+", "-"}
        neg == signed /\ t[1] = "-"
        u == IF signed THEN Tail(t) ELSE t
        w == [i \in 1 .. Len(u) |-> Lower(u[i])]
        lit == Literal(SelectSeq(w, NotUnderscore))
        k == (IF lit.eneg THEN 0 - Decimal(lit.edigits) ELSE Decimal(lit.edigits))
             - lit.scale
        n == IF neg THEN 0 - Decimal(lit.digits) ELSE Decimal(lit.digits)
    IN  IF w = <<"i", "n", "f">> \/ w = <<"i", "n", "f", "i", "n", "i", "t", "y">>
        THEN IF neg THEN NegInfinity ELSE Infinity
        ELSE IF w = <<"n", "a", "n">> THEN NaN
        ELSE IF (\E i \in 1 .. Len(w) : w[i] = "_") /\ (python < 36 \/ ~Grouped(w))
        THEN ValueError
        ELSE IF ~lit.ok THEN ValueError
        ELSE IF n = 0 THEN Num(0)
        ELSE IF k >= 0 THEN Num(n * Pow10(k))
        ELSE Div(Num(n), Num(Pow10(0 - k)))

\* lines as read from a file: a blank line ending in CR LF, a header `z,-5`,
\* a data line `1.5,2`, and a data line `3, 4_0e0` ending in CR LF, which
\* Python 3.6 and later read as the point (3, 40) and earlier versions reject
BlankText == <<"\r", "\n">>
HeaderText == <<"z", ",", "-", "5", "\n">>
DataText == <<"1", ".", "5", ",", "2", "\n">>
DataText2 == <<"3", ",", " ", "4", "_", "0", "e", "0", "\r", "\n">>

LineTexts == {BlankText, HeaderText, DataText, DataText2}

ParserArgs == [lines : SeqsUpTo(MaxLines, LineTexts), flat : {Omitted, True}]

\* the outcome of an exception e leaving the function
Raises(e) ==
    [kind |-> "raise", val |-> None, exc |-> e[1], msg |-> <<>>, routes |-> {}, ref |-> 0]

\* the outcome of `return zs, xs, ys`
ReturnsTuple(zs, xs, ys) ==
    [kind |-> "return", val |-> <<zs, xs, ys>>, exc |-> "", msg |-> <<>>, routes |-> {},
     ref |-> 0]

MinOf(a, b) == IF a < b THEN a ELSE b

\* the lists all_zs, all_xs, all_ys after the first n rounds of the outer
\* loop over zip(z_values, x_lists, y_lists)
RECURSIVE Flat(_, _, _, _)
Flat(zs, xls, yls, n) ==
    IF n = 0 THEN [zs |-> <<>>, xs |-> <<>>, ys |-> <<>>]
    ELSE LET before == Flat(zs, xls, yls, n - 1)
             m == MinOf(Len(xls[n]), Len(yls[n]))
         IN  [zs |-> before.zs \o [j \in 1 .. m |-> zs[n]],
              xs |-> before.xs \o SubSeq(xls[n], 1, m),
              ys |-> before.ys \o SubSeq(yls[n], 1, m)]

\* the locals f with the names of the record v bound to its values
Assign(f, v) == v @@ f

\* the locals before the loop, lines 2873-2879; position is not a name of the
\* code: it is the place of the iterator of `for line in lines`, which the
\* frame keeps on its stack
Locals0(lines, flat) ==
    [lines |-> lines, flat |-> flat, position |-> 1,
     z_values |-> <<>>, x_lists |-> <<>>, y_lists |-> <<>>,
     working_xs |-> <<>>, working_ys |-> <<>>, new_curve |-> TRUE]

\* the locals f after `for line in lines` has taken the next line
NextLine(f) ==
    Assign([f EXCEPT !.position = @ + 1], [line |-> f.lines[f.position]])

\* a blank line that also stores the working lists and starts new ones
NewCurve_closes_curve(f) ==
    [f EXCEPT !.new_curve = TRUE,
              !.x_lists = Append(@, f.working_xs),
              !.y_lists = Append(@, f.working_ys),
              !.working_xs = <<>>, !.working_ys = <<>>]

\* the locals f after `new_curve = True`
NewCurve(f) == [f EXCEPT !.new_curve = TRUE]

\* a header that stores the working lists whether or not they are empty
OpenCurve_always_stores(f, z) ==
    Assign([f EXCEPT !.z_values = Append(@, z),
                     !.x_lists = Append(@, f.working_xs),
                     !.y_lists = Append(@, f.working_ys),
                     !.working_xs = <<>>, !.working_ys = <<>>,
                     !.new_curve = FALSE],
           [z |-> z])

\* the locals f after the branch `elif new_curve:` for the header value z;
\* a list is true when it is not empty
OpenCurve(f, z) ==
    LET stored == f.working_xs # <<>> /\ f.working_ys # <<>>
    IN  Assign([f EXCEPT !.z_values = Append(@, z),
                         !.x_lists = IF stored THEN Append(@, f.working_xs) ELSE @,
                         !.y_lists = IF stored THEN Append(@, f.working_ys) ELSE @,
                         !.working_xs = <<>>, !.working_ys = <<>>,
                         !.new_curve = FALSE],
               [z |-> z])

\* the locals f after the list comprehension `[float(i) for i in ...]` has
\* last bound i to the text field: on Python 2 the variable of a list
\* comprehension is a local of the function, on Python 3 it is not
Comprehension(f, field) == IF python = 27 THEN Assign(f, [i |-> field]) ELSE f

\* the locals f after the branch `else:` for the point (x, y)
AddPoint(f, x, y) ==
    Assign([f EXCEPT !.working_xs = Append(@, x), !.working_ys = Append(@, y)],
           [x |-> x, y |-> y])

\* the locals f after the two appends that follow the loop
StoreLast(f) ==
    [f EXCEPT !.x_lists = Append(@, f.working_xs), !.y_lists = Append(@, f.working_ys)]

\* the locals f after the branch `if flat:` up to its return: the three flat
\* lists, and the loop variables as the last round of each loop has left them
FlatLists(f) ==
    LET n == MinOf(Len(f.z_values), MinOf(Len(f.x_lists), Len(f.y_lists)))
        all == Flat(f.z_values, f.x_lists, f.y_lists, n)
        Points(k) == MinOf(Len(f.x_lists[k]), Len(f.y_lists[k]))
        K == {k \in 1 .. n : Points(k) > 0}
        last == CHOOSE k \in K : \A j \in K : j <= k
        lists == Assign(f, [all_zs |-> all.zs, all_xs |-> all.xs, all_ys |-> all.ys])
        outer == IF n = 0 THEN lists
                 ELSE Assign(lists, [z |-> f.z_values[n], xs |-> f.x_lists[n],
                                     ys |-> f.y_lists[n]])
    IN  IF K = {} THEN outer
        ELSE Assign(outer, [x |-> f.x_lists[last][Points(last)],
                            y |-> f.y_lists[last][Points(last)]])

\* the thread that calls the parser
Caller == threads[1]

\* the line the loop is at
Line == Caller.frame.lines[Caller.frame.position]

InLoop == Caller.fn = "Engauge_2d_parser" /\ Caller.pc = "loop"

AtLine == InLoop /\ Caller.frame.position <= Len(Caller.frame.lines)

InitParser ==
    /\ fn = ""
    /\ args = <<>>
    /\ out = NoOutcome
    /\ pc = "threads"
    /\ heap = <<>>
    /\ consts = ModuleConsts
    /\ python \in PythonVersions
    /\ log = <<>>
    /\ \E a \in ParserArgs : threads = <<Start("Engauge_2d_parser", a)>>

\* the call binds lines and flat and runs the assignments before the loop
EnterParser ==
    /\ Caller.fn = "Engauge_2d_parser" /\ Caller.pc = "call"
    /\ threads' = [threads EXCEPT
          ![1].pc = "loop",
          ![1].frame = Locals0(Caller.args.lines, Default(Caller.args.flat, False))]
    /\ UNCHANGED <<fn, args, out, pc, heap, consts, python, log>>

\* `if line.strip() == '': new_curve = True`
BlankLine ==
    /\ AtLine
    /\ strip(Line) = <<>>
    /\ threads' = [threads EXCEPT ![1].frame = NewCurve(NextLine(@))]
    /\ UNCHANGED <<fn, args, out, pc, heap, consts, python, log>>

\* `elif new_curve:` the line opens a curve
HeaderLine ==
    /\ AtLine
    /\ strip(Line) # <<>>
    /\ Caller.frame.new_curve
    /\ LET fields == split(Line)
           z == IF Len(fields) < 2 THEN IndexError ELSE float(fields[2])
       IN  IF z \in {IndexError, ValueError}
           THEN threads' = [threads EXCEPT ![1].pc = "done", ![1].out = Raises(z),
                                           ![1].frame = NextLine(@)]
           ELSE threads' = [threads EXCEPT ![1].frame = OpenCurve(NextLine(@), z)]
    /\ UNCHANGED <<fn, args, out, pc, heap, consts, python, log>>

\* `else:` the line is a point of the curve
DataLine ==
    /\ AtLine
    /\ strip(Line) # <<>>
    /\ ~Caller.frame.new_curve
    /\ LET fields == split(strip(Line))
           floats == [k \in 1 .. Len(fields) |-> float(fields[k])]
           Bad == {k \in 1 .. Len(fields) : floats[k] = ValueError}
           reached == IF Bad = {} THEN Len(fields)
                      ELSE CHOOSE k \in Bad : \A j \in Bad : k <= j
       IN  IF Bad # {} \/ Len(fields) # 2
           THEN threads' = [threads EXCEPT
                   ![1].pc = "done", ![1].out = Raises(ValueError),
                   ![1].frame = Comprehension(NextLine(@), fields[reached])]
           ELSE threads' = [threads EXCEPT
                   ![1].frame = AddPoint(Comprehension(NextLine(@), fields[reached]),
                                         floats[1], floats[2])]
    /\ UNCHANGED <<fn, args, out, pc, heap, consts, python, log>>

\* the loop is over: the working lists are appended
AfterLoop ==
    /\ InLoop
    /\ Caller.frame.position > Len(Caller.frame.lines)
    /\ threads' = [threads EXCEPT ![1].pc = "end", ![1].frame = StoreLast(@)]
    /\ UNCHANGED <<fn, args, out, pc, heap, consts, python, log>>

\* `if flat:` the points of all curves in three flat lists
ReturnFlat ==
    /\ Caller.fn = "Engauge_2d_parser" /\ Caller.pc = "end"
    /\ Truthy(Caller.frame.flat)
    /\ LET f == FlatLists(Caller.frame)
       IN  threads' = [threads EXCEPT ![1].pc = "done", ![1].frame = f,
                                      ![1].out = ReturnsTuple(f.all_zs, f.all_xs, f.all_ys)]
    /\ consts' = Globals(Caller.fn, Caller.args, threads'[1].out, consts)
    /\ UNCHANGED <<fn, args, out, pc, heap, python, log>>

\* `return z_values, x_lists, y_lists`
ReturnLists ==
    /\ Caller.fn = "Engauge_2d_parser" /\ Caller.pc = "end"
    /\ ~Truthy(Caller.frame.flat)
    /\ threads' = [threads EXCEPT
          ![1].pc = "done",
          ![1].out = ReturnsTuple(Caller.frame.z_values, Caller.frame.x_lists,
                                  Caller.frame.y_lists)]
    /\ consts' = Globals(Caller.fn, Caller.args, threads'[1].out, consts)
    /\ UNCHANGED <<fn, args, out, pc, heap, python, log>>

NextParser ==
    \/ EnterParser
    \/ BlankLine
    \/ HeaderLine
    \/ DataLine
    \/ AfterLoop
    \/ ReturnFlat
    \/ ReturnLists

SpecParser == InitParser /\ [][NextParser]_vars

Init == InitRoutes \/ InitSingle \/ InitTemp

Next == NextRoutes \/ NextSingle \/ NextTemp

Spec == Init /\ [][Next]_vars

----------------------------------------------------------------------------
(* The routes of the multi-route functions, as documented *)

TwoRouteFns == RouteFns \ {"Prandtl"}

\* the functions whose routes lead to the kinematic viscosity nu
NuFns == {"Reynolds", "Grashof", "Schmidt"}

\* the routes of f in priority order, each the set of the inputs it requires
RouteInputs(f) ==
    IF f \in NuFns THEN <<{"rho", "mu"}, {"nu"}>>
    ELSE IF f = "Prandtl"
    THEN <<{"Cp", "k", "mu"}, {"nu", "rho", "Cp", "k"}, {"nu", "alpha"}>>
    ELSE <<{"rho", "Cp", "k"}, {"alpha"}>>

Routes(f) == DOMAIN RouteInputs(f)

OptionalInputs(f) == UNION {RouteInputs(f)[r] : r \in Routes(f)}

\* every input of route r is supplied and nonzero
Available(f, a, r) == \A p \in RouteInputs(f)[r] : Truthy(a[p])

\* the first available route of the call, 0 if there is none
FirstAvailable(f, a) ==
    IF \E r \in Routes(f) : Available(f, a, r)
    THEN CHOOSE r \in Routes(f) :
            Available(f, a, r) /\ \A q \in Routes(f) : Available(f, a, q) => r <= q
    ELSE 0

\* the call's arguments with only the inputs of route r supplied
OnlyRoute(f, a, r) ==
    [p \in DOMAIN a |->
        IF p \in OptionalInputs(f) \ RouteInputs(f)[r] THEN None ELSE a[p]]

\* the documented closed form of route r of f on the arguments a:
\* a number, or the exception its evaluation raises
Formula(f, r, a) ==
    CASE f = "Reynolds" ->
            IF r = 1 THEN Div(Mul(Mul(a.V, a.D), a.rho), a.mu)
            ELSE Div(Mul(a.V, a.D), a.nu)
      [] f = "Peclet_heat" ->
            IF r = 1 THEN Div(Mul(Mul(Mul(a.V, a.L), a.rho), a.Cp), a.k)
            ELSE Div(Mul(a.V, a.L), a.alpha)
      [] f = "Fourier_heat" ->
            IF r = 1 THEN Div(Mul(a.k, a.t), Mul(Mul(a.Cp, a.rho), Sq(a.L)))
            ELSE Div(Mul(a.alpha, a.t), Sq(a.L))
      [] f = "Graetz_heat" ->
            IF r = 1 THEN Div(Mul(Mul(Mul(a.V, Sq(a.D)), a.Cp), a.rho), Mul(a.x, a.k))
            ELSE Div(Mul(a.V, Sq(a.D)), Mul(a.x, a.alpha))
      [] f = "Schmidt" ->
            IF r = 1 THEN Div(a.mu, Mul(a.D, a.rho)) ELSE Div(a.nu, a.D)
      [] f = "Lewis" ->
            IF r = 1 THEN Div(a.k, Mul(Mul(a.rho, a.Cp), a.D)) ELSE Div(a.alpha, a.D)
      [] f = "Prandtl" ->
            IF r = 1 THEN Div(Mul(a.Cp, a.mu), a.k)
            ELSE IF r = 2 THEN Div(Mul(Mul(a.Cp, a.rho), a.nu), a.k)
            ELSE Div(a.nu, a.alpha)
      [] f = "Grashof" ->
            LET top == Mul(Mul(Mul(Default(a.g, g), a.beta),
                               Abs(Sub(Default(a.T2, Num(0)), a.T1))), Cube(a.L))
            IN  IF r = 1 THEN Div(Mul(top, Sq(a.rho)), Sq(a.mu)) ELSE Div(top, Sq(a.nu))

\* what the caller sees of an outcome: the value returned or the exception raised
Result(o) == <<o.kind, o.val, o.exc>>

\* the outcome of returning the number v, or of the exception v
ResultOf(v) == IF IsErr(v) THEN <<"raise", None, v[1]>> ELSE <<"return", v, "">>

Done == pc = "done"

\* the name of the direct (second-route) input of a two-route function
Direct(f) == IF f \in NuFns THEN "nu" ELSE "alpha"

\* the value of the direct input that is consistent with the first route's inputs
Derived(f, a) ==
    IF f \in NuFns THEN Div(a.mu, a.rho) ELSE Div(a.k, Mul(a.rho, a.Cp))

----------------------------------------------------------------------------
(* C1: when every input of the first-priority route of a two-route function
   is supplied and nonzero, the result is the first-route formula, and it is
   the same whatever value is supplied for the second-route input. *)
C1_FirstRouteWins ==
    (Done /\ fn \in TwoRouteFns /\ Available(fn, args, 1)) =>
        /\ Result(out) = ResultOf(Formula(fn, 1, args))
        /\ \A v \in Opt : Result(Call(fn, [args EXCEPT ![Direct(fn)] = v])) = Result(out)

\* Lewis called with k, Cp, rho and an alpha that disagrees with k/(rho*Cp)
C1_Witness ==
    /\ Done /\ fn = "Lewis" /\ Available(fn, args, 1) /\ Truthy(args.alpha)
    /\ args.alpha # Derived(fn, args)
    /\ out.kind = "return" /\ out.val = Formula(fn, 1, args)

(* C2: Prandtl tries (Cp, k, mu), then (nu, rho, Cp, k), then (nu, alpha):
   with Cp, k, nu, rho and alpha nonzero the result is nu*rho*Cp/k when mu is
   absent and Cp*mu/k when mu is nonzero as well. *)
C2_PrandtlOrder ==
    (Done /\ fn = "Prandtl" /\ Available(fn, args, 2) /\ Available(fn, args, 3)) =>
        /\ args.mu = None =>
              Result(out) = ResultOf(Div(Mul(Mul(args.nu, args.rho), args.Cp), args.k))
        /\ Truthy(args.mu) => Result(out) = ResultOf(Div(Mul(args.Cp, args.mu), args.k))

\* mu absent, routes two and three both supplied and giving different numbers
C2_Witness ==
    /\ Done /\ fn = "Prandtl" /\ args.mu = None
    /\ Available(fn, args, 2) /\ Available(fn, args, 3)
    /\ Formula(fn, 2, args) # Formula(fn, 3, args)
    /\ out.val = Formula(fn, 2, args)

\* the inputs of every route of f are supplied and nonzero
AllSupplied(f, a) == \A r \in Routes(f) : Available(f, a, r)

\* the supplied inputs describe one fluid: nu = mu/rho and alpha = k/(rho*Cp)
Consistent(f, a) ==
    /\ {"rho", "mu", "nu"} \subseteq OptionalInputs(f) => a.nu = Div(a.mu, a.rho)
    /\ {"rho", "Cp", "k", "alpha"} \subseteq OptionalInputs(f) =>
          a.alpha = Div(a.k, Mul(a.rho, a.Cp))

(* C3 as stated: for every multi-route function and each of its routes, the
   call with only that route's inputs gives the same result as the call with
   the inputs of all routes supplied. *)
C3_AsStated ==
    (Done /\ AllSupplied(fn, args)) =>
        \A r \in Routes(fn) : Result(Call(fn, OnlyRoute(fn, args, r))) = Result(out)

(* C3 amended: with the inputs of all routes supplied and nonzero, the call
   with only one route's inputs gives the same result as the call with all
   of them when that route is the first-priority one, or when the inputs are
   consistent (nu = mu/rho, alpha = k/(rho*Cp)). *)
C3_RouteAlone ==
    (Done /\ AllSupplied(fn, args)) =>
        \A r \in Routes(fn) :
            (r = 1 \/ Consistent(fn, args)) =>
                Result(Call(fn, OnlyRoute(fn, args, r))) = Result(out)

\* Prandtl with consistent inputs for all three routes
C3_Witness ==
    /\ Done /\ fn = "Prandtl" /\ AllSupplied(fn, args) /\ Consistent(fn, args)
    /\ args.nu # args.alpha
    /\ out.kind = "return"
    /\ Result(Call(fn, OnlyRoute(fn, args, 3))) = Result(out)

(* C4: a call of a multi-route function in which no route is satisfied
   raises the missing-input error and returns no value. *)
C4_NoRouteRaises ==
    (Done /\ FirstAvailable(fn, args) = 0) =>
        /\ out.kind = "raise" /\ out.exc = "Exception"
        /\ out.val = None /\ out.msg # <<>>

\* Schmidt with rho but no mu and nu = 0
C4_Witness ==
    /\ Done /\ fn = "Schmidt" /\ Truthy(args.rho) /\ args.mu = None /\ args.nu = Num(0)
    /\ out.exc = "Exception"

\* the words w occur in the message m, in order and next to each other
Says(m, w) ==
    \E i \in 0 .. Len(m) - Len(w) : \A j \in 1 .. Len(w) : m[i + j] = w[j]

\* the words that name an input quantity, as the Parameters sections of the
\* docstrings call them: mu is the (dynamic) viscosity, nu the kinematic
\* viscosity
Words(p) ==
    CASE p = "rho" -> <<"density">>
      [] p = "mu" -> <<"viscosity">>
      [] p = "nu" -> <<"kinematic", "viscosity">>
      [] p = "Cp" -> <<"heat", "capacity">>
      [] p = "k" -> <<"thermal", "conductivity">>
      [] p = "alpha" -> <<"thermal", "diffusivity">>

\* the message names every input of every route of f
NamesInputSets(f, m) == \A r \in Routes(f) : \A p \in RouteInputs(f)[r] : Says(m, Words(p))

MissingInput == Done /\ out.kind = "raise" /\ out.exc = "Exception"

(* C5: the error raised when no route is available carries a message that
   names the acceptable input sets of the function, the required inputs of
   each route.  The code does not: the message of Schmidt, Lewis and Prandtl
   names no input, and the message of Reynolds and Grashof calls the
   alternative input nu "dynamic viscosity", which is mu. *)
C5_AsStated == MissingInput => NamesInputSets(fn, out.msg)

\* Schmidt raising for want of a viscosity, with a message that names none of
\* its inputs
C5_Witness ==
    /\ MissingInput /\ fn = "Schmidt"
    /\ args.mu = None /\ args.nu = None /\ args.rho = None
    /\ out.msg = MsgSchmidt
    /\ \A p \in OptionalInputs(fn) : ~Says(out.msg, Words(p))

(* C6: a route is available exactly when all its inputs are supplied and
   nonzero: the route evaluated is the first such route, a skipped
   higher-priority route gives way to the next available one, and with no
   available route (a direct input of 0 included) the call raises the
   missing-input error, never a division by zero. *)
C6_Availability ==
    Done =>
        /\ out.exc = "Exception" <=> FirstAvailable(fn, args) = 0
        /\ FirstAvailable(fn, args) = 0 => out.exc # "ZeroDivisionError"
        /\ FirstAvailable(fn, args) > 1 =>
              Result(out) = ResultOf(Formula(fn, FirstAvailable(fn, args), args))

\* Peclet_heat with rho and Cp nonzero, k absent and alpha nonzero
C6_Witness ==
    /\ Done /\ fn = "Peclet_heat" /\ Truthy(args.rho) /\ Truthy(args.Cp)
    /\ args.k = None /\ Truthy(args.alpha)
    /\ out.kind = "return" /\ out.val = Div(Mul(args.V, args.L), args.alpha)

\* Reynolds with nu = 0 and no (rho, mu): the missing-input error
C6_WitnessZero ==
    /\ Done /\ fn = "Reynolds" /\ args.nu = Num(0) /\ args.mu = None
    /\ out.exc = "Exception"

(* C7: a call that returns a value has evaluated the formula of exactly one
   route, the first available one, and returns that formula's value; a call
   in which no route is available evaluates none. *)
C7_ExactlyOneRoute ==
    Done =>
        /\ out.kind = "return" =>
              /\ out.routes = {FirstAvailable(fn, args)}
              /\ out.val = Formula(fn, FirstAvailable(fn, args), args)
        /\ FirstAvailable(fn, args) = 0 => out.routes = {}
        /\ Cardinality(out.routes) <= 1

\* Prandtl with all three routes supplied and route 1 differing from route 3
C7_Witness ==
    /\ Done /\ fn = "Prandtl" /\ AllSupplied(fn, args)
    /\ Formula(fn, 1, args) # Formula(fn, 3, args)
    /\ out.kind = "return" /\ out.routes = {1}

(* C8: on consistent inputs the two routes of a two-route function agree:
   the call through (rho, mu) equals the call through nu = mu/rho alone, and
   the call through (rho, Cp, k) equals the call through alpha = k/(rho*Cp)
   alone. *)
C8_RoutesAgree ==
    (Done /\ fn \in TwoRouteFns /\ Available(fn, args, 1)) =>
        Result(out) =
            Result(Call(fn, OnlyRoute(fn, [args EXCEPT ![Direct(fn)] = Derived(fn, args)], 2)))

\* Graetz_heat through (rho, Cp, k) with alpha = k/(rho*Cp) not an integer
C8_Witness ==
    /\ Done /\ fn = "Graetz_heat" /\ Available(fn, args, 1) /\ args.alpha = None
    /\ Derived(fn, args)[2] # 1
    /\ out.kind = "return" /\ out.val # Num(0)

----------------------------------------------------------------------------
(* The temperature conversions: round trips and collections *)

(* C9: for each of the 12 ordered pairs of temperature scales, converting x
   to the other scale and converting the result back returns x, for every x,
   negative values and zero included (numbers being exact rationals, this is
   the round trip in exact arithmetic). *)
C9_RoundTrip ==
    (pc = "back" /\ fn \in TempFns) =>
        /\ out.kind = "return"
        /\ heap[out.ref].data = heap[1].data

\* F2R(R2F(-40)): a negative x whose image in the other scale differs from it
C9_Witness ==
    /\ pc = "back" /\ fn = "F2R" /\ heap[1] = Float(Num(-40))
    /\ heap[2].data # heap[1].data
    /\ heap[out.ref].data = <<Num(-40)>>

(* C10: a conversion applied to a collection returns a new collection whose
   i-th element is the scalar conversion of the i-th input element, and
   leaves the input collection (and every other object) unchanged. *)
C10_Collections ==
    [][(fn' \in TempFns /\ pc' \in {"done", "back"} /\ heap[args'.x].ndim = 1) =>
          /\ \A i \in DOMAIN heap : heap'[i] = heap[i]
          /\ out'.kind = "return"
          /\ out'.ref \in DOMAIN heap' \ DOMAIN heap
          /\ Len(heap'[out'.ref].data) = Len(heap[args'.x].data)
          /\ \A i \in DOMAIN heap[args'.x].data :
                heap'[out'.ref].data[i] = ScalarConv(fn', heap[args'.x].data[i])]_vars

\* K2F of a numpy array of two different temperatures
C10_Witness ==
    /\ pc = "done" /\ fn = "K2F" /\ heap[1].type = "ndarray"
    /\ Len(heap[1].data) = 2 /\ heap[1].data[1] # heap[1].data[2]
    /\ out.ref = 2
    /\ heap[2].data = <<ScalarConv("K2F", heap[1].data[1]), ScalarConv("K2F", heap[1].data[2])>>

----------------------------------------------------------------------------
(* The single-formula functions *)

\* a < b on rationals
Less(a, b) == a[1] * b[2] < b[1] * a[2]

\* the parameter p of the call, or d when the caller left it out
Given(p, d) == Default(args[p], d)

(* C11: for every V, L and g, Froude(V, L, g, squared=True) is the square of
   Froude(V, L, g, squared=False), and the latter is V/sqrt(L*g): its square
   is V*V/(L*g) and, when L*g > 0, it has the sign of V.  The flag changes
   nothing else: when the plain call raises, the squared call raises the
   same exception. *)
C11_FroudeSquared ==
    (Done /\ fn = "Froude") =>
        LET plain == Call("Froude", [args EXCEPT !.squared = False])
            Lg == Mul(args.L, Given("g", g))
        IN  /\ plain.kind = "return" =>
                 /\ MulS(plain.val, plain.val) = Div(Sq(args.V), Lg)
                 /\ Less(Num(0), Lg) => IsValue(plain.val) /\ ~Imag(plain.val)
                                         /\ plain.val[1] * args.V[1] >= 0
           /\ IF Truthy(Given("squared", False))
              THEN IF plain.kind = "return"
                   THEN Result(out) = ResultOf(MulS(plain.val, plain.val))
                   ELSE Result(out) = Result(plain)
              ELSE out = plain

\* Froude(2, 2, g=1, squared=True) = 2, the square of the irrational sqrt(2)
C11_Witness ==
    /\ Done /\ fn = "Froude" /\ args.squared = True
    /\ IsSurd(Call("Froude", [args EXCEPT !.squared = False]).val)
    /\ out.kind = "return" /\ out.val = Num(2)

(* C12: Froude_densimetric takes rho1 as the numerator density of the
   square-root term when heavy is true or left out, and rho2 when heavy is
   false; the denominator rho1 - rho2 and the factor V/sqrt(g*L) are the same
   in both cases.  So the square of the value returned is
   V*V/(g*L) * num/(rho1 - rho2), and the call raises exactly when g*L = 0,
   rho1 = rho2, or, under Python 2, when g*L or num/(rho1 - rho2) is negative. *)
C12_HeavySelects ==
    (Done /\ fn = "Froude_densimetric") =>
        LET num == IF args.heavy \in {Omitted, True} THEN args.rho1 ELSE args.rho2
            gL == Mul(Given("g", g), args.L)
            ratio == Div(num, Sub(args.rho1, args.rho2))
        IN  /\ out.kind = "return" =>
                 MulS(out.val, out.val) = Mul(Div(Sq(args.V), gL), ratio)
            /\ out.kind = "raise" <=>
                 \/ gL[1] = 0
                 \/ args.rho1 = args.rho2
                 \/ python = 27 /\ (gL[1] < 0 \/ ratio[1] < 0)

\* heavy=False with two different nonzero densities: the value has rho2 in it
C12_Witness ==
    /\ Done /\ fn = "Froude_densimetric" /\ args.heavy = False
    /\ args.rho1 = Num(2) /\ args.rho2 = Num(1) /\ args.V = Num(2)
    /\ out.kind = "return"
    /\ out # Call("Froude_densimetric", [args EXCEPT !.heavy = True])

(* C13 (the docstring's note): Froude_densimetric raises an exception
   whenever rho1 > rho2. *)
C13_RaisesWhenHeavier ==
    (Done /\ fn = "Froude_densimetric" /\ Less(args.rho2, args.rho1)) =>
        out.kind = "raise"

\* a call with rho1 > rho2 that returns a real number
C13_Witness ==
    /\ Done /\ fn = "Froude_densimetric" /\ Less(args.rho2, args.rho1)
    /\ out.kind = "return" /\ ~Imag(out.val) /\ out.val # Num(0)

\* an argument that the caller supplied, whatever its value
Provided(x) == x # None

(* C14 (the docstring's sentence, for a nonzero density): nu_mu_converter
   raises an error if both mu and nu are provided or if neither is provided;
   otherwise it returns mu/rho when mu is provided and nu*rho when nu is. *)
C14_ExactlyOneViscosity ==
    (Done /\ fn = "nu_mu_converter" /\ Truthy(args.rho)) =>
        IF Provided(args.mu) = Provided(args.nu)
        THEN out.kind = "raise"
        ELSE IF Provided(args.mu)
        THEN Result(out) = ResultOf(Div(args.mu, args.rho))
        ELSE Result(out) = ResultOf(Mul(args.nu, args.rho))

\* both viscosities supplied, mu as zero: the call returns nu*rho
C14_Witness ==
    /\ Done /\ fn = "nu_mu_converter" /\ Truthy(args.rho)
    /\ args.mu = Num(0) /\ Truthy(args.nu)
    /\ out.kind = "return" /\ out.val = Mul(args.nu, args.rho)

\* the synonyms of the module and the names they stand for
Synonyms == [alpha |-> "thermal_diffusivity", Pr |-> "Prandtl", Eotvos |-> "Bond"]

(* C15: a call through Pr, alpha or Eotvos has the outcome, value or error,
   of the same call through Prandtl, thermal_diffusivity or Bond. *)
C15_Synonyms ==
    (Done /\ fn \in DOMAIN Synonyms) => out = Call(Synonyms[fn], args)

\* alpha(k=2, rho=2, Cp=-3) returns k/(rho*Cp), in which Cp counts
C15_Witness ==
    /\ Done /\ fn = "alpha" /\ out.kind = "return"
    /\ args.k = Num(2) /\ args.rho = Num(2) /\ args.Cp = Num(-3)

\* the functions whose result depends on g or R, the parameter that would
\* carry it, and the shared constant
ConstFns ==
    {"Grashof", "Froude", "Froude_densimetric", "Confinement", "Morton", "Archimedes",
     "head_from_K", "head_from_P", "P_from_head", "Bond", "c_ideal_gas"}

ConstParam(f) == IF f = "c_ideal_gas" THEN "R" ELSE "g"

Shared(f) == IF f = "c_ideal_gas" THEN R ELSE g

\* the functions of ConstFns that have no parameter for the constant
NoParamFns == {"Bond", "c_ideal_gas"}

\* the documented formula of f on the arguments a with the constant c
Documented(f, a, c) ==
    CASE f = "Grashof" ->
            LET top == Mul(Mul(Mul(c, a.beta), Abs(Sub(Default(a.T2, Num(0)), a.T1))),
                           Cube(a.L))
            IN  IF Truthy(a.rho) /\ Truthy(a.mu) THEN Div(Mul(top, Sq(a.rho)), Sq(a.mu))
                ELSE Div(top, Sq(a.nu))
      [] f = "Froude" ->
            LET Fr == DivS(a.V, PowHalf(Mul(c, a.L)))
            IN  IF ~IsErr(Fr) /\ a.squared = True THEN MulS(Fr, Fr) ELSE Fr
      [] f = "Froude_densimetric" ->
            MulS(DivS(a.V, PowHalf(Mul(c, a.L))),
                 PowHalf(Div(IF a.heavy = False THEN a.rho2 ELSE a.rho1,
                             Sub(a.rho1, a.rho2))))
      [] f = "Confinement" ->
            DivS(PowHalf(Div(a.sigma, Mul(c, Sub(a.rhol, a.rhog)))), a.D)
      [] f = "Morton" ->
            Div(Mul(Mul(c, Sq(Sq(a.mul))), Sub(a.rhol, a.rhog)),
                Mul(Sq(a.rhol), Cube(a.sigma)))
      [] f = "Archimedes" ->
            Div(Mul(Mul(Mul(Cube(a.L), a.rhof), Sub(a.rhop, a.rhof)), c), Sq(a.mu))
      [] f = "head_from_K" -> Div(Mul(a.K, Sq(a.V)), Mul(Num(2), c))
      [] f = "head_from_P" -> Div(a.P, Mul(a.rho, c))
      [] f = "P_from_head" -> Mul(Mul(a.head, a.rho), c)
      [] f = "Bond" -> Div(Mul(Mul(c, Sub(a.rhol, a.rhog)), Sq(a.L)), a.sigma)
      [] f = "c_ideal_gas" -> PowHalf(Mul(Mul(a.k, Div(Mul(c, Thousand), a.MW)), a.T))

\* a call that reaches the formula: Grashof may raise for want of a viscosity
Evaluates == ~(fn = "Grashof" /\ out.routes = {})

(* C16 as stated: every function of ConstFns accepts an argument that
   overrides the constant for the call, and uses the shared constant when
   the argument is left out. *)
C16_AsStated ==
    (Done /\ fn \in ConstFns /\ Evaluates) =>
        Result(out) = ResultOf(Documented(fn, args, Given(ConstParam(fn), Shared(fn))))

(* C16 amended: Grashof, Froude, Froude_densimetric, Confinement, Morton,
   Archimedes, head_from_K, head_from_P and P_from_head take a parameter g
   that overrides standard gravity for the call, and use the shared g when
   it is left out.  Bond and c_ideal_gas have no such parameter: they always
   use the shared g and R, and a call that passes g or R raises TypeError. *)
C16_Overrides ==
    (Done /\ fn \in ConstFns /\ Evaluates) =>
        IF fn \in NoParamFns /\ args[ConstParam(fn)] # Omitted
        THEN Result(out) = ResultOf(TypeError)
        ELSE Result(out) = ResultOf(Documented(fn, args, Given(ConstParam(fn), Shared(fn))))

\* Confinement(2, 2, 1, 2, g=1) = sqrt(2)/2, not the value under standard gravity
C16_Witness ==
    /\ Done /\ fn = "Confinement" /\ args.g = Num(1)
    /\ args.sigma = Num(2) /\ args.rhol = Num(2) /\ args.rhog = Num(1) /\ args.D = Num(2)
    /\ out.kind = "return" /\ out.val = <<1, 2, 2, 1>>

(* C20: dP_from_K(K, rho, V) is K*rho*V*V/2 for every K, rho and V: no route
   is selected and no call raises; dP_from_K(K=10, rho=1000, V=3) is 45000. *)
C20_PressureDrop ==
    (Done /\ fn = "dP_from_K") =>
        /\ out.kind = "return"
        /\ out.val = Div(Mul(Mul(Mul(args.K, args.rho), args.V), args.V), Num(2))
        /\ (args.K = Num(10) /\ args.rho = Num(1000) /\ args.V = Num(3)) =>
                out.val = Num(45000)

C20_Witness ==
    /\ Done /\ fn = "dP_from_K"
    /\ args.K = Num(10) /\ args.rho = Num(1000) /\ args.V = Num(3)
    /\ out.val = Num(45000)

----------------------------------------------------------------------------
(* Purity, threads and the module constants *)

\* the arguments of a logged call by value: a conversion takes an object
ArgValue(e) == IF e.fn \in TempFns THEN heap[e.args.x] ELSE e.args

\* the outcome of a logged call by value: a conversion returns an object
OutValue(e) ==
    IF e.fn \in TempFns THEN <<e.out.kind, heap[e.out.ref], e.out.exc, e.out.msg>>
    ELSE <<e.out.kind, e.out.val, e.out.exc, e.out.msg>>

(* C17: any two calls of the same function with identical arguments have
   identical outcomes, the same value or the same error, whatever calls the
   caller made between them. *)
C17_Pure ==
    \A i \in DOMAIN log : \A j \in DOMAIN log :
        (log[i].fn = log[j].fn /\ ArgValue(log[i]) = ArgValue(log[j])) =>
            OutValue(log[i]) = OutValue(log[j])

\* Bond, which reads the module's g, before and after a call of gravity
C17_Witness ==
    /\ Len(log) = 3
    /\ log[1].fn = "Bond" /\ log[2].fn = "gravity" /\ log[3].fn = "Bond"
    /\ log[3].args = log[1].args
    /\ log[3].out.kind = "return" /\ log[3].out = log[1].out

\* the outcome of the call f(**a) of a thread when it runs alone: TypeError
\* for a keyword the function does not have, and else the documented formula
\* with the constants of the module
Alone(f, a) ==
    CASE ~Binds(f, a) -> ResultOf(TypeError)
      [] Binds(f, a) /\ f \in ConstFns ->
            ResultOf(Documented(f, a, Default(a.g, Shared(f))))
      [] f = "gravity" -> ResultOf(Sub(GravityEquator, Mul(GravityHeight, a.H)))
      [] f = "C2K" -> ResultOf(Add(a.x, zero_Celsius))

(* C18: under every interleaving of the threads' steps, each call returns
   the outcome it returns when run alone. *)
C18_Threads ==
    \A t \in DOMAIN threads :
        threads[t].pc = "done" =>
            Result(threads[t].out) = Alone(threads[t].fn, threads[t].args)

\* thread 2 has returned from gravity, whose local g is not the module's g,
\* while thread 1 is inside its call of Froude with the default g bound
C18_Witness ==
    /\ Len(threads) = 2
    /\ threads[1].fn = "Froude" /\ threads[1].args.g = Omitted
    /\ threads[1].pc = "body" /\ threads[1].frame.g = g
    /\ threads[2].fn = "gravity" /\ threads[2].pc = "done"
    /\ threads[2].frame.g = threads[2].out.val /\ threads[2].out.val # g
    /\ Result(threads[2].out) = Alone("gravity", threads[2].args)

(* C19: after any sequence of calls, successful or failing, the module-level
   constants g, R, zero_Celsius and degree_Fahrenheit and the default of the
   parameters g are what they were when the module was loaded, so a call
   with g left out uses standard gravity, also after gravity(latitude, H)
   and after calls with an explicit g. *)
C19_ConstantsKept ==
    /\ consts = ModuleConsts
    /\ consts.g = <<196133, 20000>> /\ consts.default_g = <<196133, 20000>>
    /\ \A i \in DOMAIN log :
          (log[i].fn \in {"head_from_K", "Froude"} /\ log[i].args.g = Omitted) =>
              Result(log[i].out) = ResultOf(Documented(log[i].fn, log[i].args, g))

\* gravity, then head_from_K with g=1, then head_from_K(2, 2) = 4/9.80665
C19_Witness ==
    /\ Len(log) = 3
    /\ log[1].fn = "gravity" /\ log[1].out.kind = "return"
    /\ log[2].fn = "head_from_K" /\ log[2].args.g = Num(1) /\ log[2].out.val = Num(4)
    /\ log[3].fn = "head_from_K" /\ log[3].args.g = Omitted
    /\ log[3].out.val = <<80000, 196133>>

----------------------------------------------------------------------------
(* Grashof and the temperatures *)

\* the call of Grashof with the temperatures T1 and T2 and the state's other
\* arguments
GrashofAt(T1, T2) == Call("Grashof", [args EXCEPT !.T1 = T1, !.T2 = T2])

(* C21: Grashof depends on the temperatures only through |T2 - T1|.  The call
   with T1 and T2 swapped has the same outcome, and so has the call that
   leaves T2 out (default 0) and passes the difference, of either sign, as
   T1; this holds on both viscosity routes and when the call raises. *)
C21_TemperatureDifference ==
    (Done /\ fn = "Grashof") =>
        LET T1 == args.T1
            T2 == Given("T2", Num(0))
        IN  /\ out = GrashofAt(T2, T1)
            /\ out = GrashofAt(Sub(T1, T2), Omitted)
            /\ out = GrashofAt(Sub(T2, T1), Omitted)
            /\ out.kind = "return" =>
                   out.val = Mul(Abs(Sub(T2, T1)), GrashofAt(Num(1), Num(0)).val)

\* T1 = 2 and T2 = -3 on the nu route: a nonzero result, the one of T1 = 5
C21_Witness ==
    /\ Done /\ fn = "Grashof" /\ args.T1 = Num(2) /\ args.T2 = Num(-3)
    /\ out.kind = "return" /\ out.routes = {2} /\ out.val # Num(0)
    /\ out = GrashofAt(Num(5), Omitted)

\* a viscosity route of Grashof is available: rho and mu, or nu
ViscosityRoute(a) == (Truthy(a.rho) /\ Truthy(a.mu)) \/ Truthy(a.nu)

(* C22: whether Grashof raises the missing-input error, and which route it
   takes, is decided by rho, mu and nu alone: every call has the route and
   the error of the call with the same rho, mu and nu and with L = 2,
   beta = 2, T1 = 2 and T2 and g left out, so that replacing L, beta, T1, T2
   and g by other numbers changes neither.  With T1 = T2 and an available
   route the call returns 0. *)
C22_RouteIgnoresTemperatures ==
    (Done /\ fn = "Grashof") =>
        /\ ViscosityRoute(args) <=> out.kind = "return"
        /\ ~ViscosityRoute(args) <=> (out.exc = "Exception" /\ out.msg = MsgViscosity)
        /\ out.routes = IF Truthy(args.rho) /\ Truthy(args.mu) THEN {1}
                        ELSE IF Truthy(args.nu) THEN {2} ELSE {}
        /\ LET o == Call("Grashof", [args EXCEPT !.L = Num(2), !.beta = Num(2),
                                                 !.T1 = Num(2), !.T2 = Omitted,
                                                 !.g = Omitted])
           IN  o.kind = out.kind /\ o.routes = out.routes /\ o.msg = out.msg
        /\ (ViscosityRoute(args) /\ args.T1 = Given("T2", Num(0))) =>
              Result(out) = ResultOf(Num(0))

\* T1 = T2 = 2 with rho and mu: the first route returns 0
C22_Witness ==
    /\ Done /\ fn = "Grashof" /\ args.T1 = Num(2) /\ args.T2 = Num(2)
    /\ Truthy(args.rho) /\ Truthy(args.mu) /\ args.nu = None
    /\ out.kind = "return" /\ out.routes = {1} /\ out.val = Num(0)

----------------------------------------------------------------------------
(* Graetz_heat and the relation Gz = (D/x)*Re*Pr *)

\* dynamic viscosities that are not zero
Viscosities == {Num(1), Num(2), Num(-3), <<1, 2>>}

(* C23: for nonzero V, D, x, rho, Cp and k, Graetz_heat(V, D, x, rho, Cp, k)
   returns (D/x) * Reynolds(V, D, rho, mu) * Prandtl(Cp, k, mu), whatever the
   nonzero dynamic viscosity mu. *)
C23_GraetzRelation ==
    (Done /\ fn = "Graetz_heat" /\ Truthy(args.V) /\ Truthy(args.D) /\ Truthy(args.x)
          /\ Truthy(args.rho) /\ Truthy(args.Cp) /\ Truthy(args.k)) =>
        \A mu \in Viscosities :
            LET Re == Reynolds(args.V, args.D, args.rho, mu, None)
                Prn == Prandtl(args.Cp, args.k, mu, None, None, None)
            IN  /\ Re.kind = "return" /\ Prn.kind = "return"
                /\ Result(out) =
                      ResultOf(Mul(Mul(Div(args.D, args.x), Re.val), Prn.val))

\* Graetz_heat(V=2, D=-3, x=2, rho=1, Cp=2, k=1): Re*Pr*D/x = 18, no alpha
C23_Witness ==
    /\ Done /\ fn = "Graetz_heat" /\ args.alpha = None
    /\ args.V = Num(2) /\ args.D = Num(-3) /\ args.x = Num(2)
    /\ args.rho = Num(1) /\ args.Cp = Num(2) /\ args.k = Num(1)
    /\ out.kind = "return" /\ out.val = Num(18)
    /\ Reynolds(args.V, args.D, args.rho, Num(2), None).val = Num(-3)
    /\ Prandtl(args.Cp, args.k, Num(2), None, None, None).val = Num(4)

----------------------------------------------------------------------------
(* The loss-coefficient and head conversions as inverse pairs *)

\* the friction factor of the call, 0.015 when the caller left it out
FrictionGiven == Given("fd", default_fd)

(* C24: for nonzero fd, D, rho and g, in exact arithmetic,
   L_from_K(K_from_f(fd, L, D), D, fd) = L,
   L_equiv_from_K(K_from_L_equiv(x, fd), fd) = x, also when fd is left out
   of both calls (the default 0.015), and
   P_from_head(head_from_P(P, rho, g), rho, g) = P. *)
C24_InversePairs ==
    /\ (Done /\ fn = "K_from_f" /\ Truthy(args.fd) /\ Truthy(args.D)) =>
          /\ out.kind = "return"
          /\ Result(Call("L_from_K", [K |-> out.val, D |-> args.D, fd |-> args.fd]))
                = ResultOf(args.L)
    /\ (Done /\ fn = "K_from_L_equiv" /\ Truthy(FrictionGiven)) =>
          /\ out.kind = "return"
          /\ Result(Call("L_equiv_from_K", [K |-> out.val, fd |-> args.fd]))
                = ResultOf(args.L_D)
    /\ (Done /\ fn = "head_from_P" /\ Truthy(args.rho) /\ Truthy(Given("g", g))) =>
          /\ out.kind = "return"
          /\ Result(Call("P_from_head", [head |-> out.val, rho |-> args.rho, g |-> args.g]))
                = ResultOf(args.P)

\* K_from_L_equiv(240) = 3.6 with the default fd, and L_equiv_from_K(3.6) = 240
C24_Witness ==
    /\ Done /\ fn = "K_from_L_equiv" /\ args.fd = Omitted /\ args.L_D = Num(240)
    /\ out.kind = "return" /\ out.val = <<18, 5>>
    /\ Call("L_equiv_from_K", [K |-> out.val, fd |-> Omitted]).val = Num(240)

----------------------------------------------------------------------------
(* The temperature conversions composed through an intermediate scale *)

Scales == {"C", "K", "F", "R"}

\* the conversion from the scale a to the scale b
Conversion(a, b) ==
    CASE a = "C" /\ b = "K" -> "C2K" [] a = "K" /\ b = "C" -> "K2C"
      [] a = "F" /\ b = "C" -> "F2C" [] a = "C" /\ b = "F" -> "C2F"
      [] a = "F" /\ b = "K" -> "F2K" [] a = "K" /\ b = "F" -> "K2F"
      [] a = "C" /\ b = "R" -> "C2R" [] a = "K" /\ b = "R" -> "K2R"
      [] a = "F" /\ b = "R" -> "F2R" [] a = "R" /\ b = "C" -> "R2C"
      [] a = "R" /\ b = "K" -> "R2K" [] a = "R" /\ b = "F" -> "R2F"

\* the numbers of the object returned by f2(f1(x)) for the object x of the heap
Composed(f2, f1, x) ==
    LET first == Convert(f1, heap, x)
        second == Convert(f2, first.heap, first.ref)
    IN  second.heap[second.ref].data

(* C25: a direct conversion agrees with the composition of two conversions
   through any other scale, for every x (a number or a collection), in exact
   arithmetic: F2K(x) = C2K(F2C(x)), K2F(x) = C2F(K2C(x)), C2R(x) = K2R(C2K(x)),
   F2R(x) = K2R(F2K(x)), R2C(x) = K2C(R2K(x)), R2F(x) = K2F(R2K(x)), and
   likewise for the other direct conversions and intermediate scales. *)
C25_Composition ==
    (fn \in TempFns /\ pc \in {"done", "back"}) =>
        /\ out.kind = "return"
        /\ \A a \in Scales : \A c \in Scales \ {a} :
              fn = Conversion(a, c) =>
                 \A b \in Scales \ {a, c} :
                    heap[out.ref].data = Composed(Conversion(b, c), Conversion(a, b), args.x)
        /\ fn = "F2K" => heap[out.ref].data = Composed("C2K", "F2C", args.x)
        /\ fn = "K2F" => heap[out.ref].data = Composed("C2F", "K2C", args.x)
        /\ fn = "C2R" => heap[out.ref].data = Composed("K2R", "C2K", args.x)
        /\ fn = "F2R" => heap[out.ref].data = Composed("K2R", "F2K", args.x)
        /\ fn = "R2C" => heap[out.ref].data = Composed("K2C", "R2K", args.x)
        /\ fn = "R2F" => heap[out.ref].data = Composed("K2F", "R2K", args.x)

\* K2F(233.15) = -40 = C2F(K2C(233.15)), where K2C(233.15) = -40 too
C25_Witness ==
    /\ pc = "done" /\ fn = "K2F" /\ heap[1] = Float(<<4663, 20>>)
    /\ heap[out.ref].data = <<Num(-40)>>
    /\ Composed("C2F", "K2C", 1) = <<Num(-40)>>
    /\ ScalarConv("K2C", <<4663, 20>>) = Num(-40)
    /\ ScalarConv("C2K", Num(-40)) = <<4663, 20>>

----------------------------------------------------------------------------
(* nu_mu_converter never returns an absent value *)

(* C26: every call of nu_mu_converter either raises or returns a number,
   never None.  When the guard of line 2194 does not raise, rho is nonzero
   and exactly one of mu and nu is nonzero, so one of the two return branches
   is taken, and mu/rho does not divide by zero. *)
C26_NeverNone ==
    (Done /\ fn = "nu_mu_converter") =>
        /\ out.kind \in {"raise", "return"}
        /\ out.kind = "raise" => out.exc = "Exception" /\ out.msg = MsgConverter
        /\ out.kind = "return" =>
              /\ IsNum(out.val) /\ out.val # None
              /\ Truthy(args.rho)
              /\ Truthy(args.mu) # Truthy(args.nu)
              /\ out.routes = IF Truthy(args.mu) THEN {1} ELSE {2}

\* nu_mu_converter(2, mu=1, nu=0) returns 1/2: the guard lets it through
C26_Witness ==
    /\ Done /\ fn = "nu_mu_converter"
    /\ args.rho = Num(2) /\ args.mu = Num(1) /\ args.nu = Num(0)
    /\ out.kind = "return" /\ out.val = <<1, 2>>

----------------------------------------------------------------------------
(* Engauge_2d_parser: what the input says, read off the lines themselves *)

\* the lines the parser was called with
Input == Caller.args.lines

ParserDone == Caller.fn = "Engauge_2d_parser" /\ Caller.pc = "done"

\* the call asked for the lists of lists (flat is false or left out)
Nested == ~Truthy(Default(Caller.args.flat, False))

IsBlank(i) == strip(Input[i]) = <<>>

\* the lines that open a curve: not blank, and first or preceded by a blank line
HeaderLines == {i \in 1 .. Len(Input) : ~IsBlank(i) /\ (i = 1 \/ IsBlank(i - 1))}

\* the other lines that are not blank: the points of the curves
PointLines == {i \in 1 .. Len(Input) : ~IsBlank(i) /\ i \notin HeaderLines}

NumCurves == Cardinality(HeaderLines)

\* the k-th smallest element of the set S of numbers
Kth(S, k) == CHOOSE i \in S : Cardinality({j \in S : j < i}) = k - 1

\* the point lines of the k-th curve
PointsOf(k) ==
    {i \in PointLines : /\ i > Kth(HeaderLines, k)
                        /\ k < NumCurves => i < Kth(HeaderLines, k + 1)}

\* the second comma-separated field of the header line i, as a number
HeaderValue(i) == float(split(Input[i])[2])

\* the n-th coordinate of the point line i
Coordinate(i, n) == float(split(strip(Input[i]))[n])

ValidHeader(i) == Len(split(Input[i])) >= 2 /\ HeaderValue(i) # ValueError

ValidPoint(i) ==
    /\ Len(split(strip(Input[i]))) = 2
    /\ Coordinate(i, 1) # ValueError /\ Coordinate(i, 2) # ValueError

\* every line is syntactically valid where it stands
ValidLines ==
    /\ \A i \in HeaderLines : ValidHeader(i)
    /\ \A i \in PointLines : ValidPoint(i)

\* the input is made of one or more curves separated by blank lines, each a
\* header line followed by at least one data line
CurvesInput ==
    /\ ValidLines
    /\ NumCurves >= 1
    /\ \A k \in 1 .. NumCurves : PointsOf(k) # {}

\* the n-th coordinates of the points of the k-th curve, in input order
CurveCoordinates(k, n) ==
    [m \in 1 .. Cardinality(PointsOf(k)) |-> Coordinate(Kth(PointsOf(k), m), n)]

(* C27: for an input made of curves separated by blank lines, every curve a
   header line followed by at least one data line, Engauge_2d_parser with
   flat false returns z_values, x_lists and y_lists with one entry per curve
   in input order: z_values[k] is the second field of the k-th header, and
   x_lists[k], y_lists[k] are the x and y values of the k-th curve's data
   lines in input order. *)
C27_Curves ==
    (ParserDone /\ Nested /\ CurvesInput) =>
        /\ Caller.out.kind = "return"
        /\ Len(Caller.out.val[1]) = NumCurves
        /\ Len(Caller.out.val[2]) = NumCurves
        /\ Len(Caller.out.val[3]) = NumCurves
        /\ \A k \in 1 .. NumCurves :
              /\ Caller.out.val[1][k] = HeaderValue(Kth(HeaderLines, k))
              /\ Caller.out.val[2][k] = CurveCoordinates(k, 1)
              /\ Caller.out.val[3][k] = CurveCoordinates(k, 2)

\* two curves: `z,-5` with the point (1.5, 2), and `1.5,2` read as a header
\* with the point (3, 40), on Python 3.6 or later
C27_Witness ==
    /\ ParserDone /\ Nested /\ python = 37
    /\ Input = <<HeaderText, DataText, BlankText, DataText, DataText2>>
    /\ CurvesInput /\ NumCurves = 2
    /\ Caller.out.val = << <<Num(-5), Num(2)>>,
                           << << <<3, 2>> >>, <<Num(3)>> >>,
                           << <<Num(2)>>, <<Num(40)>> >> >>

(* C28: for any sequence of syntactically valid lines, empty input and
   curves whose header is followed by no data line included, the z_values,
   x_lists and y_lists that Engauge_2d_parser returns have the same length. *)
C28_SameLength ==
    (ParserDone /\ Nested /\ ValidLines) =>
        /\ Caller.out.kind = "return"
        /\ Len(Caller.out.val[1]) = Len(Caller.out.val[2])
        /\ Len(Caller.out.val[2]) = Len(Caller.out.val[3])

\* a header without data, a blank line, then a curve with one point: two z
\* values and one pair of lists, the first z value beside the second curve
C28_Witness ==
    /\ ParserDone /\ Nested /\ ValidLines
    /\ Input = <<HeaderText, BlankText, DataText, DataText>>
    /\ Caller.out.val = << <<Num(-5), Num(2)>>, << << <<3, 2>> >> >>, << <<Num(2)>> >> >>

\* the lists xs and ys have the same length, and so have xs[i] and ys[i]
Paired(xs, ys) ==
    /\ Len(xs) = Len(ys)
    /\ \A i \in 1 .. Len(xs) : Len(xs[i]) = Len(ys[i])

\* the locals of the parser pair up, and so do the lists it returns
PairedLists ==
    /\ (Caller.fn = "Engauge_2d_parser" /\ Caller.pc \in {"loop", "end", "done"}) =>
          /\ Len(Caller.frame.working_xs) = Len(Caller.frame.working_ys)
          /\ Paired(Caller.frame.x_lists, Caller.frame.y_lists)
    /\ (ParserDone /\ Caller.out.kind = "return") =>
          IF Nested THEN Paired(Caller.out.val[2], Caller.out.val[3])
          ELSE /\ Len(Caller.out.val[1]) = Len(Caller.out.val[2])
               /\ Len(Caller.out.val[2]) = Len(Caller.out.val[3])
    /\ (AtLine /\ Caller.frame.position > 1 /\ IsBlank(Caller.frame.position - 1))
          => Caller.frame.new_curve

\* the locals of the parser moved to the next line of the input: the place
\* of the loop and its variable `line`
Advanced == Assign([Caller.frame EXCEPT !.position = @ + 1], [line |-> Line])

\* the iteration of the loop on a blank line
BlankStep ==
    (AtLine /\ strip(Line) = <<>>) =>
        /\ threads' = [threads EXCEPT ![1].frame = [Advanced EXCEPT !.new_curve = TRUE]]
        /\ (Caller.frame.new_curve
              \/ (Caller.frame.position > 1 /\ IsBlank(Caller.frame.position - 1)))
              => threads' = [threads EXCEPT ![1].frame = Advanced]

(* C29: at every step of the loop of Engauge_2d_parser and in its result,
   working_xs and working_ys have equal length and every stored pair
   x_lists[i], y_lists[i] has equal length.  The iteration on a blank line
   sets new_curve and changes no list; on a blank line that follows a blank
   line it changes nothing at all but the position in the input, so a run of
   blank lines leaves the parser where a single blank line leaves it. *)
C29_PairedLists == [](PairedLists) /\ [][BlankStep]_vars

\* two points read, then two blank lines: the lists are as the first blank
\* line found them
C29_Witness ==
    /\ InLoop /\ Caller.frame.position = 6
    /\ Input = <<HeaderText, DataText, DataText2, BlankText, BlankText>>
    /\ Caller.frame.new_curve
    /\ Caller.frame.working_xs = << <<3, 2>>, Num(3)>>
    /\ Caller.frame.working_ys = <<Num(2), Num(40)>>
    /\ Caller.frame.line = BlankText
    /\ Caller.frame.x_lists = <<>> /\ Caller.frame.y_lists = <<>>

====
